---- MODULE Spec2Model ----
(***************************************************************************)
(* Model of the LLM meta-endpoint worker (src/src/index.ts): one inbound   *)
(* request is validated, its credentials are resolved, one invocation per  *)
(* provider with a credential is started, the invocations settle in any    *)
(* order, and Promise.all joins them into one combined response.           *)
(*                                                                         *)
(* JavaScript values are tagged records.  A JavaScript string is a         *)
(* sequence of chunks (TLA+ strings): a chunk is a whitespace character, a *)
(* JSON punctuation mark, a quote, an escaped quote, a numeral, a literal  *)
(* or a run of other characters.  An object is a sequence of <<key, value>>*)
(* pairs in insertion order; an absent property reads as Undefined.        *)
(***************************************************************************)
EXTENDS Integers, Sequences, FiniteSets, TLC

\* ------------------------------------------------------------------------
\* JavaScript values
\* ------------------------------------------------------------------------

Undefined == [t |-> "undefined"]
Null == [t |-> "null"]
Bool(b) == [t |-> "boolean", b |-> b]
Num(n) == [t |-> "number", n |-> n]
Str(s) == [t |-> "string", s |-> s]
Arr(a) == [t |-> "array", a |-> a]
Obj(f) == [t |-> "object", f |-> f]

\* typeof v
TypeOf(v) ==
    CASE v.t = "undefined" -> "undefined"
      [] v.t = "null" -> "object"
      [] v.t = "array" -> "object"
      [] OTHER -> v.t

\* ToBoolean(v): what `!v`, `v || w` and `if (v)` test
Truthy(v) ==
    CASE v.t = "undefined" -> FALSE
      [] v.t = "null" -> FALSE
      [] v.t = "boolean" -> v.b
      [] v.t = "number" -> v.n # 0
      [] v.t = "string" -> Len(v.s) > 0
      [] OTHER -> TRUE

\* v || w
OrElse(v, w) == IF Truthy(v) THEN v ELSE w

RECURSIVE Lookup(_, _, _)
\* the value of the last pair of f with key k, from position i down
Lookup(f, k, i) ==
    IF i = 0 THEN Undefined
    ELSE IF f[i][1] = k THEN f[i][2]
    ELSE Lookup(f, k, i - 1)

\* v.k on a value that is neither null nor undefined (v?.k on any value)
Get(v, k) ==
    IF v.t = "object" THEN Lookup(v.f, k, Len(v.f)) ELSE Undefined

\* v?.[i], 0-based, on any value
At(v, i) ==
    CASE v.t = "array" -> IF i + 1 <= Len(v.a) THEN v.a[i + 1] ELSE Undefined
      [] v.t = "string" -> IF i + 1 <= Len(v.s) THEN Str(<<v.s[i + 1]>>) ELSE Undefined
      [] v.t = "object" -> Lookup(v.f, ToString(i), Len(v.f))
      [] OTHER -> Undefined

RECURSIVE PutAt(_, _, _, _)
PutAt(f, k, v, i) ==
    IF i > Len(f) THEN Append(f, <<k, v>>)
    ELSE IF f[i][1] = k THEN [f EXCEPT ![i] = <<k, v>>]
    ELSE PutAt(f, k, v, i + 1)

\* f with property k set to v (a repeated key keeps its place, the last value wins)
Put(f, k, v) == PutAt(f, k, v, 1)

\* ------------------------------------------------------------------------
\* Strings
\* ------------------------------------------------------------------------

DQ == "\""
EDQ == "\\\""
EEDQ == "\\\\\\\""

WhiteSpace == {" ", "\t", "\n"}

RECURSIVE TrimStart(_)
TrimStart(s) ==
    IF s # <<>> /\ Head(s) \in WhiteSpace THEN TrimStart(Tail(s)) ELSE s

RECURSIVE TrimEnd(_)
TrimEnd(s) ==
    IF s # <<>> /\ s[Len(s)] \in WhiteSpace THEN TrimEnd(SubSeq(s, 1, Len(s) - 1)) ELSE s

\* String.prototype.trim
Trim(s) == TrimEnd(TrimStart(s))

\* String.prototype.substring(0, n)
Substring0(s, n) == SubSeq(s, 1, IF Len(s) < n THEN Len(s) ELSE n)

RECURSIVE JoinChunks(_)
\* the chunks of s as one TLA+ string (a property name)
JoinChunks(s) == IF s = <<>> THEN "" ELSE Head(s) \o JoinChunks(Tail(s))

\* s.includes(c), for a chunk c
Contains(s, c) == \E i \in 1..Len(s) : s[i] = c

\* ------------------------------------------------------------------------
\* JSON.parse and JSON.stringify over chunk sequences
\* ------------------------------------------------------------------------

\* the numbers whose numerals the texts of the model use
KnownNumbers == {0, 1, 42, 123, 4096}

IsNumeral(c) == \E n \in KnownNumbers : ToString(n) = c
NumeralValue(c) == CHOOSE n \in KnownNumbers : ToString(n) = c

\* the escape of one chunk inside a string literal, and its inverse
Escape(c) ==
    CASE c = DQ -> EDQ
      [] c = EDQ -> EEDQ
      [] c = "\n" -> "\\n"
      [] c = "\t" -> "\\t"
      [] OTHER -> c

Unescape(c) ==
    CASE c = EDQ -> DQ
      [] c = EEDQ -> EDQ
      [] c = "\\n" -> "\n"
      [] c = "\\t" -> "\t"
      [] OTHER -> c

ParseOk(v, n) == [ok |-> TRUE, value |-> v, next |-> n]
ParseFail(m) == [ok |-> FALSE, msg |-> m]

UnexpectedEnd == <<"Unexpected end of JSON input">>
UnexpectedToken(c) == <<"Unexpected token ", c, " in JSON">>
BadControl == <<"Bad control character in string literal in JSON">>

\* the first position at or after i that holds no white space (one past the
\* end when there is none)
SkipWs(toks, i) ==
    IF i > Len(toks) \/ toks[i] \notin WhiteSpace THEN i
    ELSE IF \A k \in i..Len(toks) : toks[k] \in WhiteSpace THEN Len(toks) + 1
    ELSE CHOOSE k \in i..Len(toks) :
            toks[k] \notin WhiteSpace /\ \A m \in i..(k - 1) : toks[m] \in WhiteSpace

\* the position of the first unescaped quote at or after j, 0 when there is none
CloseQuote(toks, j) ==
    IF \A k \in j..Len(toks) : toks[k] # DQ THEN 0
    ELSE CHOOSE k \in j..Len(toks) : toks[k] = DQ /\ \A m \in j..(k - 1) : toks[m] # DQ

\* the string literal from the quote at i to the closing quote at c
StringBetween(toks, i, c) ==
    IF c = 0 THEN ParseFail(UnexpectedEnd)
    ELSE IF \E k \in (i + 1)..(c - 1) : toks[k] \in {"\n", "\t"}
    THEN ParseFail(BadControl)
    ELSE ParseOk(Str([k \in 1..(c - i - 1) |-> Unescape(toks[i + k])]), c + 1)

\* a string literal whose opening quote is at i
ParseString(toks, i) == StringBetween(toks, i, CloseQuote(toks, i + 1))

RECURSIVE ParseValue(_, _)
RECURSIVE ParseElements(_, _, _, _)
RECURSIVE ParseMembers(_, _, _, _)

\* the JSON value that starts at i (white space before it already skipped)
ParseValue(toks, i) ==
    IF i > Len(toks) THEN ParseFail(UnexpectedEnd)
    ELSE CASE toks[i] = DQ -> ParseString(toks, i)
           [] toks[i] = "{" -> ParseMembers(toks, i + 1, <<>>, TRUE)
           [] toks[i] = "[" -> ParseElements(toks, i + 1, <<>>, TRUE)
           [] toks[i] = "null" -> ParseOk(Null, i + 1)
           [] toks[i] = "true" -> ParseOk(Bool(TRUE), i + 1)
           [] toks[i] = "false" -> ParseOk(Bool(FALSE), i + 1)
           [] OTHER -> IF IsNumeral(toks[i])
                       THEN ParseOk(Num(NumeralValue(toks[i])), i + 1)
                       ELSE ParseFail(UnexpectedToken(toks[i]))

\* after an element: "," and the next element, or "]"
ElementSeparator(toks, k, acc) ==
    IF k > Len(toks) THEN ParseFail(UnexpectedEnd)
    ELSE IF toks[k] = "," THEN ParseElements(toks, k + 1, acc, FALSE)
    ELSE IF toks[k] = "]" THEN ParseOk(Arr(acc), k + 1)
    ELSE ParseFail(UnexpectedToken(toks[k]))

\* r: the parse of one element
AfterElement(toks, r, acc) ==
    IF ~r.ok THEN r ELSE ElementSeparator(toks, SkipWs(toks, r.next), Append(acc, r.value))

ElementsAt(toks, j, acc, first) ==
    IF j > Len(toks) THEN ParseFail(UnexpectedEnd)
    ELSE IF first /\ toks[j] = "]" THEN ParseOk(Arr(acc), j + 1)
    ELSE AfterElement(toks, ParseValue(toks, j), acc)

\* the elements of an array from i on; first: nothing read yet, so "]" may follow
ParseElements(toks, i, acc, first) == ElementsAt(toks, SkipWs(toks, i), acc, first)

\* after a member: "," and the next member, or "}"
MemberSeparator(toks, k, acc) ==
    IF k > Len(toks) THEN ParseFail(UnexpectedEnd)
    ELSE IF toks[k] = "," THEN ParseMembers(toks, k + 1, acc, FALSE)
    ELSE IF toks[k] = "}" THEN ParseOk(Obj(acc), k + 1)
    ELSE ParseFail(UnexpectedToken(toks[k]))

\* r: the parse of the value of the member named key
AfterMemberValue(toks, key, r, acc) ==
    IF ~r.ok THEN r
    ELSE MemberSeparator(toks, SkipWs(toks, r.next), Put(acc, key, r.value))

\* c: the position where the ":" after the key must be
MemberColon(toks, key, c, acc) ==
    IF c > Len(toks) THEN ParseFail(UnexpectedEnd)
    ELSE IF toks[c] # ":" THEN ParseFail(UnexpectedToken(toks[c]))
    ELSE AfterMemberValue(toks, key, ParseValue(toks, SkipWs(toks, c + 1)), acc)

\* key: the parse of the member's name
AfterMemberKey(toks, key, acc) ==
    IF ~key.ok THEN key
    ELSE MemberColon(toks, JoinChunks(key.value.s), SkipWs(toks, key.next), acc)

MembersAt(toks, j, acc, first) ==
    IF j > Len(toks) THEN ParseFail(UnexpectedEnd)
    ELSE IF first /\ toks[j] = "}" THEN ParseOk(Obj(acc), j + 1)
    ELSE IF toks[j] # DQ THEN ParseFail(UnexpectedToken(toks[j]))
    ELSE AfterMemberKey(toks, ParseString(toks, j), acc)

\* the members of an object from i on
ParseMembers(toks, i, acc, first) == MembersAt(toks, SkipWs(toks, i), acc, first)

\* e: the position after the value and the white space that follows it
ParseEnd(text, r, e) ==
    IF e <= Len(text) THEN ParseFail(UnexpectedToken(text[e]))
    ELSE [ok |-> TRUE, value |-> r.value]

ParseWhole(text, r) == IF ~r.ok THEN r ELSE ParseEnd(text, r, SkipWs(text, r.next))

\* JSON.parse(text): [ok |-> TRUE, value] or, where JSON.parse throws a
\* SyntaxError, [ok |-> FALSE, msg] with the error's message
JSONParse(text) == ParseWhole(text, ParseValue(text, SkipWs(text, 1)))

RECURSIVE Stringify(_)
RECURSIVE StringifyElements(_, _)
RECURSIVE StringifyMembers(_, _, _)

\* JSON.stringify(v) for a value that is not undefined
Stringify(v) ==
    CASE v.t = "null" -> <<"null">>
      [] v.t = "undefined" -> <<"null">>
      [] v.t = "boolean" -> IF v.b THEN <<"true">> ELSE <<"false">>
      [] v.t = "number" -> <<ToString(v.n)>>
      [] v.t = "string" -> <<DQ>> \o [k \in 1..Len(v.s) |-> Escape(v.s[k])] \o <<DQ>>
      [] v.t = "array" -> <<"[">> \o StringifyElements(v.a, 1) \o <<"]">>
      [] v.t = "object" -> <<"{">> \o StringifyMembers(v.f, 1, TRUE) \o <<"}">>

StringifyElements(a, i) ==
    IF i > Len(a) THEN <<>>
    ELSE (IF i > 1 THEN <<",">> ELSE <<>>) \o Stringify(a[i]) \o StringifyElements(a, i + 1)

\* the members from i on; a property whose value is undefined is left out
StringifyMembers(f, i, first) ==
    IF i > Len(f) THEN <<>>
    ELSE IF f[i][2] = Undefined THEN StringifyMembers(f, i + 1, first)
    ELSE (IF first THEN <<>> ELSE <<",">>)
         \o <<DQ, f[i][1], DQ, ":">> \o Stringify(f[i][2])
         \o StringifyMembers(f, i + 1, FALSE)

JSONStringify(v) == Stringify(v)

RECURSIVE ThrowsOnString(_)
\* String(v) throws a TypeError: v is an object with an own toString property
\* (no decoded JSON value is callable, and the inherited valueOf returns the
\* object itself), or an array whose join meets such an element
ThrowsOnString(v) ==
    CASE v.t = "object" -> \E i \in 1..Len(v.f) : v.f[i][1] = "toString"
      [] v.t = "array" -> \E i \in 1..Len(v.a) : ThrowsOnString(v.a[i])
      [] OTHER -> FALSE

\* the message of that TypeError
ConversionMessage == <<"Cannot convert object to primitive value">>

RECURSIVE ToJSString(_)
RECURSIVE JoinArray(_, _)

\* String(v): the text JSON.parse and template literals coerce a value to
ToJSString(v) ==
    CASE v.t = "string" -> v.s
      [] v.t = "number" -> <<ToString(v.n)>>
      [] v.t = "boolean" -> IF v.b THEN <<"true">> ELSE <<"false">>
      [] v.t = "null" -> <<"null">>
      [] v.t = "undefined" -> <<"undefined">>
      [] v.t = "array" -> JoinArray(v.a, 1)
      [] v.t = "object" -> <<"[", "object", " ", "Object", "]">>

\* Array.prototype.join(","): null and undefined elements give the empty text
JoinArray(a, i) ==
    IF i > Len(a) THEN <<>>
    ELSE (IF i > 1 THEN <<",">> ELSE <<>>)
         \o (IF a[i].t \in {"null", "undefined"} THEN <<>> ELSE ToJSString(a[i]))
         \o JoinArray(a, i + 1)

\* ------------------------------------------------------------------------
\* Constants of the program
\* ------------------------------------------------------------------------

\* the provider keys, in the order buildLLMPromises tests them
ProviderOrder == <<"openai", "anthropic", "gemini", "grok">>
Providers == {ProviderOrder[i] : i \in 1..Len(ProviderOrder)}

LLM_CONFIGS ==
    [openai |-> [name |-> <<"OpenAI GPT-4">>,
                 url |-> <<"https://api.openai.com/v1/chat/completions">>,
                 model |-> <<"gpt-4o-2024-08-06">>],
     anthropic |-> [name |-> <<"Anthropic Claude">>,
                    url |-> <<"https://api.anthropic.com/v1/messages">>,
                    model |-> <<"claude-sonnet-4-20250514">>],
     gemini |-> [name |-> <<"Google Gemini">>,
                 url |-> <<"https://generativelanguage.googleapis.com/v1beta/models/gemini-1.5-pro:generateContent">>,
                 model |-> <<"gemini-1.5-pro">>],
     grok |-> [name |-> <<"xAI Grok">>,
               url |-> <<"https://api.x.ai/v1/chat/completions">>,
               model |-> <<"grok-2-1212">>]]

DEFAULT_SCHEMA ==
    Obj(<< <<"type", Str(<<"object">>)>>,
           <<"properties",
             Obj(<< <<"answer", Obj(<< <<"type", Str(<<"string">>)>>,
                                       <<"description", Str(<<"The answer to the query">>)>> >>)>>,
                    <<"confidence", Obj(<< <<"type", Str(<<"number">>)>>,
                                           <<"description", Str(<<"Confidence level from 0 to 1">>)>> >>)>> >>)>>,
           <<"required", Arr(<<Str(<<"answer">>), Str(<<"confidence">>)>>)>>,
           <<"additionalProperties", Bool(FALSE)>> >>)

\* the env variable that holds the process-level credential of a provider
EnvName(p) ==
    CASE p = "openai" -> "OPENAI_API_KEY"
      [] p = "anthropic" -> "ANTHROPIC_API_KEY"
      [] p = "gemini" -> "GEMINI_API_KEY"
      [] p = "grok" -> "GROK_API_KEY"

\* ------------------------------------------------------------------------
\* Pure utility functions
\* ------------------------------------------------------------------------

createLogEntry(level, message, context, time) ==
    IF Truthy(context)
    THEN [level |-> level, timestamp |-> time, message |-> message, context |-> context]
    ELSE [level |-> level, timestamp |-> time, message |-> message]

\* a safeJsonParse without the catch: the SyntaxError leaves the function
SafeResult_Rethrow(r) ==
    IF r.ok
    THEN [success |-> TRUE, value |-> r.value]
    ELSE [thrown |-> <<"SyntaxError: ">> \o r.msg]

\* r: what JSON.parse did
SafeResult(r) ==
    IF r.ok
    THEN [success |-> TRUE, value |-> r.value]
    ELSE [success |-> FALSE, error |-> <<"JSON parse error: ">> \o r.msg]

safeJsonParse(text) ==
    IF ThrowsOnString(text)
    THEN [success |-> FALSE, error |-> <<"JSON parse error: ">> \o ConversionMessage]
    ELSE SafeResult(JSONParse(ToJSString(text)))

\* ------------------------------------------------------------------------
\* Request body builders
\* ------------------------------------------------------------------------

UserMessages(query) ==
    Arr(<<Obj(<< <<"role", Str(<<"user">>)>>, <<"content", Str(query)>> >>)>>)

JsonSchemaFormat(schema) ==
    Obj(<< <<"type", Str(<<"json_schema">>)>>,
           <<"json_schema", Obj(<< <<"name", Str(<<"response">>)>>,
                                   <<"strict", Bool(TRUE)>>,
                                   <<"schema", schema>> >>)>> >>)

buildOpenAIRequestBody(query, schema) ==
    Obj(<< <<"model", Str(LLM_CONFIGS.openai.model)>>,
           <<"messages", UserMessages(query)>>,
           <<"response_format", JsonSchemaFormat(schema)>> >>)

buildClaudeRequestBody(query, schema) ==
    Obj(<< <<"model", Str(LLM_CONFIGS.anthropic.model)>>,
           <<"max_tokens", Num(4096)>>,
           <<"tools", Arr(<<Obj(<< <<"name", Str(<<"respond">>)>>,
                                   <<"description", Str(<<"Respond to the query with structured data">>)>>,
                                   <<"input_schema", schema>> >>)>>)>>,
           <<"tool_choice", Obj(<< <<"type", Str(<<"tool">>)>>,
                                   <<"name", Str(<<"respond">>)>> >>)>>,
           <<"messages", UserMessages(query)>> >>)

buildGeminiRequestBody(query, schema) ==
    Obj(<< <<"contents", Arr(<<Obj(<< <<"parts", Arr(<<Obj(<< <<"text", Str(query)>> >>)>>)>> >>)>>)>>,
           <<"generationConfig", Obj(<< <<"responseMimeType", Str(<<"application/json">>)>>,
                                        <<"responseSchema", schema>> >>)>> >>)

buildGrokRequestBody(query, schema) ==
    Obj(<< <<"model", Str(LLM_CONFIGS.grok.model)>>,
           <<"messages", UserMessages(query)>>,
           <<"response_format", JsonSchemaFormat(schema)>> >>)

\* ------------------------------------------------------------------------
\* Response parsers
\* ------------------------------------------------------------------------

ParseOkResult(v) == [success |-> TRUE, value |-> v]
ParseErrResult(e) == [success |-> FALSE, error |-> e]

\* v?.k and v?.[i]
OptGet(v, k) == IF v.t \in {"null", "undefined"} THEN Undefined ELSE Get(v, k)
OptAt(v, i) == IF v.t \in {"null", "undefined"} THEN Undefined ELSE At(v, i)

\* a parseOpenAIResponse that returns the extracted text as it is
parseOpenAIResponse_RawContent(data) ==
    IF ~Truthy(OptGet(OptGet(OptAt(OptGet(data, "choices"), 0), "message"), "content"))
    THEN ParseErrResult(<<"No content in OpenAI response">>)
    ELSE ParseOkResult(OptGet(OptGet(OptAt(OptGet(data, "choices"), 0), "message"), "content"))

parseOpenAIResponse(data) ==
    LET content == OptGet(OptGet(OptAt(OptGet(data, "choices"), 0), "message"), "content")
    IN  IF ~Truthy(content)
        THEN ParseErrResult(<<"No content in OpenAI response">>)
        ELSE safeJsonParse(content)

RECURSIVE FindToolUse(_, _)
\* content.find(block => block.type === 'tool_use') from element i on:
\* [threw |-> TRUE] when reading block.type of a null element throws
FindToolUse(a, i) ==
    IF i > Len(a) THEN [threw |-> FALSE, found |-> Undefined]
    ELSE IF a[i].t \in {"null", "undefined"} THEN [threw |-> TRUE]
    ELSE IF Get(a[i], "type") = Str(<<"tool_use">>) THEN [threw |-> FALSE, found |-> a[i]]
    ELSE FindToolUse(a, i + 1)

parseClaudeResponse(data) ==
    LET content == OptGet(data, "content")
    IN  IF content.t \in {"null", "undefined"}
        THEN ParseErrResult(<<"No tool_use in Claude response">>)
        ELSE IF content.t # "array"
        THEN ParseErrResult(<<"Claude parse error: ", "TypeError: data?.content?.find is not a function">>)
        ELSE LET r == FindToolUse(content.a, 1)
             IN  IF r.threw
                 THEN ParseErrResult(<<"Claude parse error: ", "TypeError: Cannot read properties of null (reading 'type')">>)
                 ELSE IF ~Truthy(OptGet(r.found, "input"))
                 THEN ParseErrResult(<<"No tool_use in Claude response">>)
                 ELSE ParseOkResult(Get(r.found, "input"))

parseGeminiResponse(data) ==
    LET content == OptGet(OptAt(OptGet(OptGet(OptAt(OptGet(data, "candidates"), 0),
                                              "content"), "parts"), 0), "text")
    IN  IF ~Truthy(content)
        THEN ParseErrResult(<<"No content in Gemini response">>)
        ELSE safeJsonParse(content)

parseGrokResponse(data) ==
    LET content == OptGet(OptGet(OptAt(OptGet(data, "choices"), 0), "message"), "content")
    IN  IF ~Truthy(content)
        THEN ParseErrResult(<<"No content in Grok response">>)
        ELSE safeJsonParse(content)

parseResponse(p, data) ==
    CASE p = "openai" -> parseOpenAIResponse(data)
      [] p = "anthropic" -> parseClaudeResponse(data)
      [] p = "gemini" -> parseGeminiResponse(data)
      [] p = "grok" -> parseGrokResponse(data)

buildBody(p, query, schema) ==
    CASE p = "openai" -> buildOpenAIRequestBody(query, schema)
      [] p = "anthropic" -> buildClaudeRequestBody(query, schema)
      [] p = "gemini" -> buildGeminiRequestBody(query, schema)
      [] p = "grok" -> buildGrokRequestBody(query, schema)

\* the headers object: names and the values given, the credential as given
\* where the builder does not put it in a template literal
buildHeaders(p, apiKey) ==
    CASE p = "openai" ->
           << <<"Content-Type", Str(<<"application/json">>)>>,
              <<"Authorization", Str(<<"Bearer ">> \o ToJSString(apiKey))>> >>
      [] p = "anthropic" ->
           << <<"Content-Type", Str(<<"application/json">>)>>,
              <<"x-api-key", apiKey>>,
              <<"anthropic-version", Str(<<"2023-06-01">>)>> >>
      [] p = "gemini" ->
           << <<"Content-Type", Str(<<"application/json">>)>> >>
      [] p = "grok" ->
           << <<"Content-Type", Str(<<"application/json">>)>>,
              <<"Authorization", Str(<<"Bearer ">> \o ToJSString(apiKey))>> >>

\* finalUrl: only Gemini passes a urlModifier
finalUrl(p, apiKey) ==
    IF p = "gemini"
    THEN LLM_CONFIGS[p].url \o <<"?key=">> \o ToJSString(apiKey)
    ELSE LLM_CONFIGS[p].url

\* ------------------------------------------------------------------------
\* One provider invocation (createLLMQueryFunction)
\* ------------------------------------------------------------------------

\* what an async function's promise settles to
Fulfilled(v) == [state |-> "fulfilled", value |-> v]
Rejected(e) == [state |-> "rejected", reason |-> e]

SuccessOutcome(provider, data, latency) ==
    [provider |-> provider, success |-> TRUE, data |-> data, latency |-> latency]

\* a failure return that keeps a data field beside the error
FailureOutcome_WithData(provider, error, latency) ==
    [provider |-> provider, success |-> FALSE, data |-> Null, error |-> error,
     latency |-> latency]

FailureOutcome(provider, error, latency) ==
    [provider |-> provider, success |-> FALSE, error |-> error, latency |-> latency]

\* thrown values: an Error with a message, or something that is no Error
ErrorOf(message) == [isError |-> TRUE, message |-> message]
NotAnError == [isError |-> FALSE]

\* error instanceof Error ? error.message : 'Unknown error'
MessageOf(error) == IF error.isError THEN error.message ELSE <<"Unknown error">>

\* a catch block that logs and throws the error again
CatchBlock_Rethrow(p, error, startTime, time) ==
    [settled |-> Rejected(error),
     log |-> <<createLogEntry("ERROR", LLM_CONFIGS[p].name \o <<" query failed">>,
                              Obj(<< <<"error", Str(MessageOf(error))>>,
                                     <<"latency", Num(time - startTime)>> >>), time)>>]

\* a catch block that reports no elapsed time
CatchBlock_ZeroLatency(p, error, startTime, time) ==
    [settled |-> Fulfilled(FailureOutcome(LLM_CONFIGS[p].name, MessageOf(error), 0)),
     log |-> <<createLogEntry("ERROR", LLM_CONFIGS[p].name \o <<" query failed">>,
                              Obj(<< <<"error", Str(MessageOf(error))>>,
                                     <<"latency", Num(0)>> >>), time)>>]

\* the catch block: a promise settlement and the records logged
CatchBlock(p, error, startTime, time) ==
    LET provider == LLM_CONFIGS[p].name
        latency == time - startTime
        errorMsg == MessageOf(error)
    IN  [settled |-> Fulfilled(FailureOutcome(provider, errorMsg, latency)),
         log |-> <<createLogEntry("ERROR", provider \o <<" query failed">>,
                                  Obj(<< <<"error", Str(errorMsg)>>,
                                         <<"latency", Num(latency)>> >>), time)>>]

\* lines 298-302 throw before fetch is called: the url modifier or the header
\* builder puts a credential in a template literal that cannot convert it
BuildThrows(p, apiKey) == p # "anthropic" /\ ThrowsOnString(apiKey)

\* what the invocation of p is called with, when it started, and (so far
\* nothing) how its awaits have settled
Frame(p, query, schema, apiKey, time) ==
    [provider |-> p,
     args |-> [query |-> query, schema |-> schema, apiKey |-> apiKey],
     startTime |-> time,
     got |-> <<>>]

\* line 295
QueryingEntry(p, query, time) ==
    createLogEntry("INFO", <<"Querying ">> \o LLM_CONFIGS[p].name,
                   Obj(<< <<"query", Str(Substring0(query, 100))>> >>), time)

\* the invocation whose try block threw before fetch: the catch block has
\* run and the promise is fulfilled when the call returns; no fetch call
ThrownBeforeFetch(p, frame, entry, time) ==
    [promise |-> frame @@ CatchBlock(p, ErrorOf(ConversionMessage), time, time).settled,
     calls |-> <<>>,
     log |-> <<entry>> \o CatchBlock(p, ErrorOf(ConversionMessage), time, time).log]

\* the invocation that called fetch and awaits it
AwaitingFetch(p, frame, entry) ==
    [promise |-> frame @@ [state |-> "fetching"],
     calls |-> <<[provider |-> p,
                 url |-> finalUrl(p, frame.args.apiKey),
                 method |-> "POST",
                 headers |-> buildHeaders(p, frame.args.apiKey),
                 body |-> JSONStringify(buildBody(p, frame.args.query, frame.args.schema))]>>,
     log |-> <<entry>>]

\* the synchronous start of an invocation, up to its first await or, when a
\* stage before fetch throws, its return: the promise, the fetch calls
\* issued (one or none) and the records logged
StartInvocation(p, query, schema, apiKey, time) ==
    IF BuildThrows(p, apiKey)
    THEN ThrownBeforeFetch(p, Frame(p, query, schema, apiKey, time),
                           QueryingEntry(p, query, time), time)
    ELSE AwaitingFetch(p, Frame(p, query, schema, apiKey, time),
                       QueryingEntry(p, query, time))

\* response.ok
IsOk(status) == status >= 200 /\ status <= 299

Settled(outcome, entry) == [settled |-> Fulfilled(outcome), log |-> <<entry>>]

\* lines 333-350: the adapter's parse and the two returns that follow it
AfterDataParse(provider, dataParseResult, latency, time) ==
    IF ~dataParseResult.success
    THEN Settled(FailureOutcome(provider, dataParseResult.error, latency),
                 createLogEntry("ERROR", provider \o <<" response parse failed">>,
                                Obj(<< <<"error", Str(dataParseResult.error)>> >>), time))
    ELSE Settled(SuccessOutcome(provider, dataParseResult.value, latency),
                 createLogEntry("INFO", provider \o <<" query successful">>,
                                Obj(<< <<"latency", Num(latency)>> >>), time))

\* lines 322-333: the body parsed as JSON
AfterJsonParse(p, jsonParseResult, latency, time) ==
    IF ~jsonParseResult.success
    THEN Settled(FailureOutcome(LLM_CONFIGS[p].name, jsonParseResult.error, latency),
                 createLogEntry("ERROR", LLM_CONFIGS[p].name \o <<" JSON parse failed">>,
                                Obj(<< <<"error", Str(jsonParseResult.error)>> >>), time))
    ELSE AfterDataParse(LLM_CONFIGS[p].name, parseResponse(p, jsonParseResult.value),
                        latency, time)

\* a non-success status thrown as an Error the try block does not catch
HttpError_Throws(errorMsg, response, responseText, latency, time) ==
    [settled |-> Rejected(ErrorOf(errorMsg.text)),
     log |-> <<createLogEntry("WARN", errorMsg.text,
                              Obj(<< <<"status", Num(response.status)>>,
                                     <<"responsePreview", Str(Substring0(responseText, 200))>> >>),
                              time)>>]

\* a non-success status reported with the raw body appended to the message
HttpError_WithBody(errorMsg, response, responseText, latency, time) ==
    [settled |-> Fulfilled([provider |-> errorMsg.provider, success |-> FALSE,
                            error |-> errorMsg.text \o <<": ">> \o responseText,
                            latency |-> latency]),
     log |-> <<createLogEntry("WARN", errorMsg.text,
                              Obj(<< <<"status", Num(response.status)>>,
                                     <<"responsePreview", Str(Substring0(responseText, 200))>> >>),
                              time)>>]

\* a non-success status logged with logError
HttpError_LogsError(errorMsg, response, responseText, latency, time) ==
    Settled([provider |-> errorMsg.provider, success |-> FALSE,
             error |-> errorMsg.text, latency |-> latency],
            createLogEntry("ERROR", errorMsg.text,
                           Obj(<< <<"status", Num(response.status)>>,
                                  <<"responsePreview", Str(Substring0(responseText, 200))>> >>),
                           time))

\* lines 308-320: the reply has a non-success status
HttpError(errorMsg, response, responseText, latency, time) ==
    Settled([provider |-> errorMsg.provider, success |-> FALSE,
             error |-> errorMsg.text, latency |-> latency],
            createLogEntry("WARN", errorMsg.text,
                           Obj(<< <<"status", Num(response.status)>>,
                                  <<"responsePreview", Str(Substring0(responseText, 200))>> >>),
                           time))

\* `${provider} API error: ${response.status} ${response.statusText}`
ApiErrorMessage(provider, response) ==
    [provider |-> provider,
     text |-> provider \o <<" API error: ", ToString(response.status), " ">>
              \o response.statusText]

\* the code after `await response.text()` with the body parsed before the
\* status is looked at
ProcessReply_ParseFirst(p, response, responseText, startTime, time) ==
    IF ~safeJsonParse(Str(responseText)).success \/ IsOk(response.status)
    THEN AfterJsonParse(p, safeJsonParse(Str(responseText)), time - startTime, time)
    ELSE HttpError(ApiErrorMessage(LLM_CONFIGS[p].name, response), response, responseText,
                   time - startTime, time)

\* the code after `await response.text()`: a promise settlement and the records logged
ProcessReply(p, response, responseText, startTime, time) ==
    IF ~IsOk(response.status)
    THEN HttpError(ApiErrorMessage(LLM_CONFIGS[p].name, response), response, responseText,
                   time - startTime, time)
    ELSE AfterJsonParse(p, safeJsonParse(Str(responseText)), time - startTime, time)

\* ------------------------------------------------------------------------
\* Main business logic
\* ------------------------------------------------------------------------

\* validateRequest without its trim test: any non-empty string is accepted
validateRequest_NoTrim(requestData) ==
    IF ~Truthy(requestData) \/ TypeOf(requestData) # "object"
    THEN [success |-> FALSE, error |-> <<"Invalid request body">>]
    ELSE IF ~Truthy(Get(requestData, "query")) \/ TypeOf(Get(requestData, "query")) # "string"
    THEN [success |-> FALSE, error |-> <<"Missing required field: query">>]
    ELSE [success |-> TRUE, value |-> requestData]

\* validateRequest testing `query === undefined` where the code tests `!query`
validateRequest_StrictMissing(requestData) ==
    IF ~Truthy(requestData) \/ TypeOf(requestData) # "object"
    THEN [success |-> FALSE, error |-> <<"Invalid request body">>]
    ELSE IF TypeOf(Get(requestData, "query")) # "string"
    THEN [success |-> FALSE, error |-> <<"Missing required field: query">>]
    ELSE IF Len(Trim(Get(requestData, "query").s)) = 0
    THEN [success |-> FALSE, error |-> <<"Query cannot be empty">>]
    ELSE [success |-> TRUE, value |-> requestData]

validateRequest(requestData) ==
    IF ~Truthy(requestData) \/ TypeOf(requestData) # "object"
    THEN [success |-> FALSE, error |-> <<"Invalid request body">>]
    ELSE IF ~Truthy(Get(requestData, "query")) \/ TypeOf(Get(requestData, "query")) # "string"
    THEN [success |-> FALSE, error |-> <<"Missing required field: query">>]
    ELSE IF Len(Trim(Get(requestData, "query").s)) = 0
    THEN [success |-> FALSE, error |-> <<"Query cannot be empty">>]
    ELSE [success |-> TRUE, value |-> requestData]

\* resolveApiKeys with ?? where the code has ||: only an absent or null
\* caller value falls through
resolveApiKeys_Nullish(requestData, environment) ==
    [p \in Providers |->
        IF OptGet(Get(requestData, "apiKeys"), p) \in {Undefined, Null}
        THEN environment[EnvName(p)]
        ELSE OptGet(Get(requestData, "apiKeys"), p)]

\* resolveApiKeys with a global precedence: once the caller gives any usable
\* credential, only the caller's credentials count
resolveApiKeys_GlobalPrecedence(requestData, environment) ==
    [p \in Providers |->
        IF \E q \in Providers : Truthy(OptGet(Get(requestData, "apiKeys"), q))
        THEN OptGet(Get(requestData, "apiKeys"), p)
        ELSE environment[EnvName(p)]]

resolveApiKeys(requestData, environment) ==
    [p \in Providers |->
        OrElse(OptGet(Get(requestData, "apiKeys"), p), environment[EnvName(p)])]

RECURSIVE PushPromises(_, _, _, _, _)
\* the `if (apiKeys.x) promises.push(queryX(...))` lines from the i-th on
PushPromises(i, query, schema, apiKeys, time) ==
    IF i > Len(ProviderOrder) THEN <<>>
    ELSE (IF Truthy(apiKeys[ProviderOrder[i]])
          THEN <<StartInvocation(ProviderOrder[i], query, schema,
                                 apiKeys[ProviderOrder[i]], time)>>
          ELSE <<>>)
         \o PushPromises(i + 1, query, schema, apiKeys, time)

RECURSIVE PushPromisesDown(_, _, _, _, _)
\* the same lines run from the i-th up to the first
PushPromisesDown(i, query, schema, apiKeys, time) ==
    IF i < 1 THEN <<>>
    ELSE (IF Truthy(apiKeys[ProviderOrder[i]])
          THEN <<StartInvocation(ProviderOrder[i], query, schema,
                                 apiKeys[ProviderOrder[i]], time)>>
          ELSE <<>>)
         \o PushPromisesDown(i - 1, query, schema, apiKeys, time)

\* buildLLMPromises pushing Grok first and OpenAI last
buildLLMPromises_Reversed(query, schema, apiKeys, time) ==
    PushPromisesDown(Len(ProviderOrder), query, schema, apiKeys, time)

\* buildLLMPromises with the OpenAI line pasted twice
buildLLMPromises_OpenAITwice(query, schema, apiKeys, time) ==
    (IF Truthy(apiKeys["openai"])
     THEN <<StartInvocation("openai", query, schema, apiKeys["openai"], time)>>
     ELSE <<>>)
    \o PushPromises(2, query, schema, apiKeys, time)
    \o (IF Truthy(apiKeys["openai"]) /\ \E p \in Providers \ {"openai"} : ~Truthy(apiKeys[p])
        THEN <<StartInvocation("openai", query, schema, apiKeys["openai"], time)>>
        ELSE <<>>)

\* buildLLMPromises without its `if (apiKeys.x)` tests
buildLLMPromises_NoGuard(query, schema, apiKeys, time) ==
    [i \in 1..Len(ProviderOrder) |->
        StartInvocation(ProviderOrder[i], query, schema, apiKeys[ProviderOrder[i]], time)]

\* the invocations started, in the order pushed
buildLLMPromises(query, schema, apiKeys, time) ==
    PushPromises(1, query, schema, apiKeys, time)

\* createCombinedResponse counting the outcomes that succeeded
createCombinedResponse_CountsSuccesses(query, responses, totalLatency, time) ==
    [query |-> query,
     responses |-> responses,
     totalLatency |-> totalLatency,
     timestamp |-> time,
     providersQueried |-> Len(SelectSeq(responses, LAMBDA o : o.success))]

\* createCombinedResponse that drops the total elapsed time
createCombinedResponse_NoTotal(query, responses, totalLatency, time) ==
    [query |-> query,
     responses |-> responses,
     totalLatency |-> 0,
     timestamp |-> time,
     providersQueried |-> Len(responses)]

createCombinedResponse(query, responses, totalLatency, time) ==
    [query |-> query,
     responses |-> responses,
     totalLatency |-> totalLatency,
     timestamp |-> time,
     providersQueried |-> Len(responses)]

createErrorResponse(status, message, details, time) ==
    [response |-> [status |-> status,
                   headers |-> << <<"Content-Type", <<"application/json">> >> >>,
                   body |-> IF Truthy(details)
                            THEN [error |-> message, details |-> details, timestamp |-> time]
                            ELSE [error |-> message, timestamp |-> time]],
     log |-> <<createLogEntry("ERROR", message,
                              Obj(<< <<"status", Num(status)>>, <<"details", details>> >>),
                              time)>>]

createSuccessResponse(data, time) ==
    [response |-> [status |-> 200,
                   headers |-> << <<"Content-Type", <<"application/json">> >>,
                                  <<"Access-Control-Allow-Origin", <<"*">> >> >>,
                   body |-> data],
     log |-> <<createLogEntry("INFO", <<"Request completed successfully">>,
                              Obj(<< <<"query", Str(Substring0(data.query, 100))>>,
                                     <<"providersQueried", Num(data.providersQueried)>>,
                                     <<"totalLatency", Num(data.totalLatency)>> >>),
                              time)>>]

\* ------------------------------------------------------------------------
\* State
\* ------------------------------------------------------------------------

VARIABLES
    env,               \* the worker's process-level credentials (Env)
    request,           \* per request: the inbound HTTP method and body text
    pc,                \* per request: where handleRequest stands
    overallStartTime,  \* per request: Date.now() read at entry
    requestData,       \* per request: the decoded body (undefined until decoded)
    queryRequest,      \* per request: the validated payload
    promises,          \* per request: the array built by buildLLMPromises
    fetchCalls,        \* per request: the fetch calls issued, in order
    sent,              \* per request: the responses returned to the client
    hlog,              \* per request: the records handleRequest logged
    plog,              \* per request, per invocation: the records it logged
    ran,               \* per request: the steps of handleRequest that ran
    now,               \* what Date.now() returns
    arg,               \* the input of a pure function under test
    result             \* its result

vars == <<env, request, pc, overallStartTime, requestData, queryRequest, promises,
          fetchCalls, sent, hlog, plog, ran, now, arg, result>>

RequestIds == {1, 2}

NoRequest == [method |-> "NONE", url |-> <<>>, body |-> <<>>]

\* ------------------------------------------------------------------------
\* Inputs
\* ------------------------------------------------------------------------

MakeEnv(set, key) ==
    [n \in {EnvName(p) : p \in Providers} |->
        IF \E p \in set : EnvName(p) = n THEN key ELSE Undefined]

MainEnvs == {MakeEnv({}, Undefined), MakeEnv({"openai"}, Str(<<"env-key">>))}

\* the apiKeys object that holds f[p] for each provider p with f[p] defined
KeyObj(f) ==
    Obj(SelectSeq([i \in 1..Len(ProviderOrder) |-> <<ProviderOrder[i], f[ProviderOrder[i]]>>],
                  LAMBDA pair : pair[2] # Undefined))

NoKeys == [p \in Providers |-> Undefined]

\* a credential that is no string and that no template literal can convert
Unprintable == Obj(<< <<"toString", Num(1)>> >>)

MainApiKeys ==
    {Undefined, Null, Str(<<"caller-key">>)}
    \cup {KeyObj(f) : f \in [Providers -> {Undefined, Str(<<"caller-key">>)}]}
    \cup {KeyObj([NoKeys EXCEPT !["openai"] = Str(<<>>)]),
          KeyObj([NoKeys EXCEPT !["openai"] = Str(<<>>), !["anthropic"] = Str(<<"caller-key">>)]),
          KeyObj([NoKeys EXCEPT !["openai"] = Num(0), !["anthropic"] = Num(42)]),
          KeyObj([NoKeys EXCEPT !["openai"] = Unprintable, !["anthropic"] = Str(<<"caller-key">>)]),
          KeyObj([NoKeys EXCEPT !["anthropic"] = Unprintable, !["gemini"] = Unprintable])}

MainQueries ==
    {Undefined, Null, Num(123), Str(<<>>), Str(<<" ", "\t">>),
     Str(<<" ", "What is 2+2?", " ">>)}

CallerSchema ==
    Obj(<< <<"type", Str(<<"object">>)>>,
           <<"required", Arr(<<Str(<<"answer">>)>>)>> >>)

MainSchemas == {Undefined, CallerSchema}

\* a decoded request body with the given properties (undefined: absent)
Payload(query, schema, apiKeys) ==
    Obj(SelectSeq(<< <<"query", query>>, <<"schema", schema>>, <<"apiKeys", apiKeys>> >>,
                  LAMBDA pair : pair[2] # Undefined))

MainPayloads ==
    {Null, Num(42), Str(<<"query">>), Arr(<<>>)}
    \cup {Payload(q, sc, k) : q \in MainQueries, sc \in MainSchemas, k \in MainApiKeys}

\* the body texts a client sends: encoded payloads, and one that is no JSON
MainBodies == {<<"invalid json", "{">>} \cup {JSONStringify(v) : v \in MainPayloads}

MainRequests ==
    [method : {"POST", "GET", "PUT", "DELETE", "OPTIONS"},
     url : {<<"https://worker.example/">>}, body : MainBodies]

PostOf(payload) ==
    [method |-> "POST", url |-> <<"https://worker.example/">>, body |-> JSONStringify(payload)]

TimedApiKeys ==
    {KeyObj([NoKeys EXCEPT !["openai"] = Str(<<"caller-key">>),
                           !["anthropic"] = Str(<<"caller-key">>)]),
     KeyObj([NoKeys EXCEPT !["openai"] = Unprintable, !["anthropic"] = Str(<<"caller-key">>)])}

\* two requests that differ in query, schema and credentials; they go to
\* the same provider, or the first to one more
TwoRequests ==
    {<<PostOf(Payload(Str(<<"What is 2+2?">>), Undefined,
                      KeyObj([NoKeys EXCEPT !["openai"] = Str(<<"caller-key">>)]))),
       PostOf(Payload(Str(<<"Capital of France?">>), CallerSchema,
                      KeyObj([NoKeys EXCEPT !["openai"] = Str(<<"other-key">>)])))>>,
     <<PostOf(Payload(Str(<<"What is 2+2?">>), Undefined,
                      KeyObj([NoKeys EXCEPT !["openai"] = Str(<<"caller-key">>),
                                            !["anthropic"] = Str(<<"caller-key">>)]))),
       PostOf(Payload(Str(<<"Capital of France?">>), CallerSchema,
                      KeyObj([NoKeys EXCEPT !["anthropic"] = Str(<<"other-key">>)])))>>}

\* requests of every kind: not a POST, no JSON, rejected, without
\* credentials, and dispatched to one, two and three providers
LiveRequests ==
    {[method |-> "GET", url |-> <<"https://worker.example/">>, body |-> <<>>],
     [method |-> "POST", url |-> <<"https://worker.example/">>, body |-> <<"invalid json", "{">>],
     PostOf(Payload(Str(<<" ", "\t">>), Undefined, Undefined))}
    \cup {PostOf(Payload(Str(<<"What is 2+2?">>), Undefined, k)) :
            k \in TimedApiKeys
                  \cup {Undefined,
                        KeyObj([NoKeys EXCEPT !["gemini"] = Str(<<"caller-key">>)]),
                        KeyObj([NoKeys EXCEPT !["openai"] = Str(<<"caller-key">>),
                                              !["anthropic"] = Str(<<"caller-key">>),
                                              !["grok"] = Str(<<"caller-key">>)])}}

\* every body text a modelled request holds
RequestBodies ==
    MainBodies
    \cup {q.body : q \in LiveRequests}
    \cup {t[i].body : t \in TwoRequests, i \in {1, 2}}

\* what request.json() makes of each of them, worked out once
ParsedBodies == [b \in RequestBodies |-> JSONParse(b)]

\* request.json() on a body text
RequestJson(body) ==
    IF body \in RequestBodies THEN ParsedBodies[body] ELSE JSONParse(body)

Answer == Obj(<< <<"answer", Str(<<"Paris">>)>> >>)

\* a chat-completions reply whose message content is the given string
ChatReply(content) ==
    Obj(<< <<"choices", Arr(<<Obj(<< <<"message",
            Obj(<< <<"content", content>> >>)>> >>)>>)>> >>)

ToolUseReply(input) ==
    Obj(<< <<"content", Arr(<<Obj(<< <<"type", Str(<<"text">>)>> >>),
                              Obj(<< <<"type", Str(<<"tool_use">>)>>,
                                     <<"input", input>> >>)>>)>> >>)

CandidatesReply(text) ==
    Obj(<< <<"candidates", Arr(<<Obj(<< <<"content",
            Obj(<< <<"parts", Arr(<<Obj(<< <<"text", text>> >>)>>)>> >>)>> >>)>>)>> >>)

\* the body texts provider p may reply with under a success status: one
\* that is no JSON, one without the expected fields, one well-formed
ReplyTexts(p) ==
    {<<"<html>", "Bad Gateway", "</html>">>,
     JSONStringify(Obj(<<>>)),
     CASE p = "anthropic" -> JSONStringify(ToolUseReply(Answer))
       [] p = "gemini" -> JSONStringify(CandidatesReply(Str(JSONStringify(Answer))))
       [] OTHER -> JSONStringify(ChatReply(Str(JSONStringify(Answer))))}

ErrorReplyText ==
    JSONStringify(Obj(<< <<"error", Obj(<< <<"message", Str(<<"rate limited">>)>> >>)>> >>))

\* how `await fetch(...)` settles when the request can be made
FetchSettlements ==
    {[kind |-> "reject", error |-> ErrorOf(<<"fetch failed">>)],
     [kind |-> "response", status |-> 200, statusText |-> <<"OK">>],
     [kind |-> "response", status |-> 429, statusText |-> <<"Too Many Requests">>]}

\* how `await fetch(...)` of invocation q settles: fetch cannot convert a
\* header value that ThrowsOnString (the x-api-key header holds the
\* credential as given) and rejects with the TypeError
FetchSettlementsFor(q) ==
    IF q.provider = "anthropic" /\ ThrowsOnString(q.args.apiKey)
    THEN {[kind |-> "reject", error |-> ErrorOf(ConversionMessage)]}
    ELSE FetchSettlements

\* how `await response.text()` settles for provider p after the given status
TextSettlements(p, status) ==
    {[kind |-> "reject", error |-> ErrorOf(<<"body stream error">>)]}
    \cup {[kind |-> "text", text |-> t] :
            t \in IF IsOk(status) THEN ReplyTexts(p) ELSE {ErrorReplyText}}

\* ------------------------------------------------------------------------
\* Initial states
\* ------------------------------------------------------------------------

\* a pure function under test: which one, and its input
NoCall == [fn |-> "none"]
NotApplied == [done |-> FALSE]

\* everything but the inputs, for the requests in R
InitAt(R) ==
    /\ pc = [r \in RequestIds |-> IF r \in R THEN "start" ELSE "idle"]
    /\ overallStartTime = [r \in RequestIds |-> 0]
    /\ requestData = [r \in RequestIds |-> Undefined]
    /\ queryRequest = [r \in RequestIds |-> Undefined]
    /\ promises = [r \in RequestIds |-> <<>>]
    /\ fetchCalls = [r \in RequestIds |-> <<>>]
    /\ sent = [r \in RequestIds |-> <<>>]
    /\ hlog = [r \in RequestIds |-> <<>>]
    /\ plog = [r \in RequestIds |-> <<>>]
    /\ ran = [r \in RequestIds |-> <<>>]
    /\ now = 0

\* one request, any of the modelled inbound requests, under any modelled env
Init ==
    /\ InitAt({1})
    /\ env \in MainEnvs
    /\ \E q \in MainRequests : request = [r \in RequestIds |-> IF r = 1 THEN q ELSE NoRequest]
    /\ arg = NoCall
    /\ result = NotApplied

\* ------------------------------------------------------------------------
\* handleRequest
\* ------------------------------------------------------------------------

\* return createErrorResponse(...): the handler of r ends with this response
ReturnError(r, step, status, message, details) ==
    LET e == createErrorResponse(status, message, details, now)
    IN  /\ sent' = [sent EXCEPT ![r] = Append(@, e.response)]
        /\ hlog' = [hlog EXCEPT ![r] = @ \o e.log]
        /\ ran' = [ran EXCEPT ![r] = @ \o step]
        /\ pc' = [pc EXCEPT ![r] = "done"]

\* an entry of handleRequest without the method test
Receive_NoMethodCheck(r) ==
    /\ pc[r] = "start"
    /\ overallStartTime' = [overallStartTime EXCEPT ![r] = now]
    /\ hlog' = [hlog EXCEPT ![r] =
                  <<createLogEntry("INFO", <<"Received request">>,
                      Obj(<< <<"method", Str(<<request[r].method>>)>>,
                             <<"url", Str(request[r].url)>> >>), now)>>]
    /\ pc' = [pc EXCEPT ![r] = "decoding"]
    /\ ran' = [ran EXCEPT ![r] = <<"method">>]
    /\ UNCHANGED <<env, request, requestData, queryRequest, promises, fetchCalls, plog,
                   sent, now, arg, result>>

\* entry of handleRequest up to `await request.json()`
Receive(r) ==
    /\ pc[r] = "start"
    /\ overallStartTime' = [overallStartTime EXCEPT ![r] = now]
    /\ IF request[r].method # "POST"
       THEN LET e == createErrorResponse(405, <<"Method not allowed. Use POST.">>, Undefined, now)
            IN  /\ sent' = [sent EXCEPT ![r] = Append(@, e.response)]
                /\ hlog' = [hlog EXCEPT ![r] =
                              <<createLogEntry("INFO", <<"Received request">>,
                                  Obj(<< <<"method", Str(<<request[r].method>>)>>,
                                         <<"url", Str(request[r].url)>> >>), now)>> \o e.log]
                /\ pc' = [pc EXCEPT ![r] = "done"]
       ELSE /\ hlog' = [hlog EXCEPT ![r] =
                          <<createLogEntry("INFO", <<"Received request">>,
                              Obj(<< <<"method", Str(<<request[r].method>>)>>,
                                     <<"url", Str(request[r].url)>> >>), now)>>]
            /\ pc' = [pc EXCEPT ![r] = "decoding"]
            /\ UNCHANGED sent
    /\ ran' = [ran EXCEPT ![r] = <<"method">>]
    /\ UNCHANGED <<env, request, requestData, queryRequest, promises, fetchCalls, plog,
                   now, arg, result>>

\* only the first invocation's call is issued when the promises are built
CallsOf_FirstOnly(started, i) ==
    IF i > Len(started) THEN <<>> ELSE started[i].calls

RECURSIVE CallsOf(_, _)
\* the fetch calls issued by the invocations started, from the i-th on
CallsOf(started, i) ==
    IF i > Len(started) THEN <<>> ELSE started[i].calls \o CallsOf(started, i + 1)

\* AfterBuild without the `promises.length === 0` test
AfterBuild_NoEmptyCheck(r, qr, started) ==
    /\ queryRequest' = [queryRequest EXCEPT ![r] = qr]
    /\ promises' = [promises EXCEPT ![r] = [i \in 1..Len(started) |-> started[i].promise]]
    /\ fetchCalls' = [fetchCalls EXCEPT ![r] = @ \o CallsOf(started, 1)]
    /\ plog' = [plog EXCEPT ![r] = [i \in 1..Len(started) |-> started[i].log]]
    /\ hlog' = [hlog EXCEPT ![r] = Append(@,
                       createLogEntry("INFO", <<"Querying LLMs in parallel">>,
                           Obj(<< <<"count", Num(Len(started))>> >>), now))]
    /\ ran' = [ran EXCEPT ![r] = @ \o <<"json", "validate", "resolve", "build">>]
    /\ pc' = [pc EXCEPT ![r] = "awaiting"]
    /\ UNCHANGED sent

\* lines 502-509: the promises are built; started holds, per invocation, its
\* promise, its fetch call and its log record
AfterBuild(r, qr, started) ==
    IF Len(started) = 0
    THEN /\ ReturnError(r, <<"json", "validate", "resolve", "build">>, 400,
                        <<"No API keys provided. Include apiKeys in request body or configure environment variables.">>,
                        Undefined)
         /\ queryRequest' = [queryRequest EXCEPT ![r] = qr]
         /\ UNCHANGED <<promises, fetchCalls, plog>>
    ELSE /\ queryRequest' = [queryRequest EXCEPT ![r] = qr]
         /\ promises' = [promises EXCEPT ![r] = [i \in 1..Len(started) |-> started[i].promise]]
         /\ fetchCalls' = [fetchCalls EXCEPT ![r] = @ \o CallsOf(started, 1)]
         /\ plog' = [plog EXCEPT ![r] = [i \in 1..Len(started) |-> started[i].log]]
         /\ hlog' = [hlog EXCEPT ![r] = Append(@,
                       createLogEntry("INFO", <<"Querying LLMs in parallel">>,
                           Obj(<< <<"count", Num(Len(started))>> >>), now))]
         /\ ran' = [ran EXCEPT ![r] = @ \o <<"json", "validate", "resolve", "build">>]
         /\ pc' = [pc EXCEPT ![r] = "awaiting"]
         /\ UNCHANGED sent

\* Dispatch reading the query from a place all handlers share, where the
\* first request's handler left its own
Dispatch_SharedQuery(r, qr) ==
    \E started \in {buildLLMPromises(IF requestData[1].t = "object"
                                     THEN Get(requestData[1], "query").s
                                     ELSE Get(qr, "query").s,
                                     OrElse(Get(qr, "schema"), DEFAULT_SCHEMA),
                                     resolveApiKeys(qr, env), now)} :
        AfterBuild(r, qr, started)

\* a handler that passes the trimmed query on to the providers
Dispatch_TrimmedQuery(r, qr) ==
    \E started \in {buildLLMPromises(Trim(Get(qr, "query").s),
                                     OrElse(Get(qr, "schema"), DEFAULT_SCHEMA),
                                     resolveApiKeys(qr, env), now)} :
        AfterBuild(r, qr, started)

\* lines 495-500: schema defaulting, key resolution, buildLLMPromises
Dispatch(r, qr) ==
    \E started \in {buildLLMPromises(Get(qr, "query").s,
                                     OrElse(Get(qr, "schema"), DEFAULT_SCHEMA),
                                     resolveApiKeys(qr, env), now)} :
        AfterBuild(r, qr, started)

\* lines 490-495: the decoded body is validated
AfterValidate(r, validationResult) ==
    IF ~validationResult.success
    THEN /\ ReturnError(r, <<"json", "validate">>, 400, validationResult.error, Undefined)
         /\ UNCHANGED <<queryRequest, promises, fetchCalls, plog>>
    ELSE Dispatch(r, validationResult.value)

\* a handler that validates whatever the decoding left, without telling a
\* body that is no JSON apart
AfterJson_NoJsonCheck(r, decoded) ==
    /\ requestData' = [requestData EXCEPT ![r] = IF decoded.ok THEN decoded.value ELSE Undefined]
    /\ \E validationResult \in {validateRequest(IF decoded.ok THEN decoded.value ELSE Undefined)} :
          AfterValidate(r, validationResult)

\* lines 481-490: decoded is what request.json() did with the body text
AfterJson(r, decoded) ==
    IF ~decoded.ok
    THEN /\ ReturnError(r, <<"json">>, 400, <<"Invalid JSON in request body">>,
                        Obj(<< <<"parseError", Str(decoded.msg)>> >>))
         /\ UNCHANGED <<requestData, queryRequest, promises, fetchCalls, plog>>
    ELSE /\ requestData' = [requestData EXCEPT ![r] = decoded.value]
         /\ \E validationResult \in {validateRequest(decoded.value)} :
               AfterValidate(r, validationResult)

\* the handler from the settlement of request.json() to `await Promise.all`
Decode(r) ==
    /\ pc[r] = "decoding"
    /\ \E decoded \in {RequestJson(request[r].body)} : AfterJson(r, decoded)
    /\ UNCHANGED <<env, request, overallStartTime, now, arg, result>>

\* ------------------------------------------------------------------------
\* The invocations of a request
\* ------------------------------------------------------------------------

\* invocation q moves on after its await settled as s: its frame kept, s
\* noted, its state and what comes with it replaced
SettleWith(q, s, settled) ==
    [provider |-> q.provider, args |-> q.args, startTime |-> q.startTime,
     got |-> Append(q.got, s)] @@ settled

\* `await fetch(...)` of invocation i settles: on rejection the catch block
\* runs, on a response the invocation calls response.text() and waits again
FetchSettles(r, i) ==
    /\ i \in 1..Len(promises[r])
    /\ promises[r][i].state = "fetching"
    /\ \E s \in FetchSettlementsFor(promises[r][i]) :
          IF s.kind = "reject"
          THEN LET c == CatchBlock(promises[r][i].provider, s.error,
                                   promises[r][i].startTime, now)
               IN  /\ promises' = [promises EXCEPT ![r][i] = SettleWith(@, s, c.settled)]
                   /\ plog' = [plog EXCEPT ![r][i] = @ \o c.log]
          ELSE /\ promises' = [promises EXCEPT ![r][i] =
                                 SettleWith(@, s, [state |-> "reading",
                                                response |-> [status |-> s.status,
                                                              statusText |-> s.statusText]])]
               /\ UNCHANGED plog
    /\ UNCHANGED <<env, request, pc, overallStartTime, requestData, queryRequest,
                   fetchCalls, sent, hlog, ran, now, arg, result>>

\* `await response.text()` of invocation i settles: on rejection the catch
\* block runs, on a text the rest of the try block runs
TextSettles(r, i) ==
    /\ i \in 1..Len(promises[r])
    /\ promises[r][i].state = "reading"
    /\ \E s \in TextSettlements(promises[r][i].provider, promises[r][i].response.status) :
          LET c == IF s.kind = "reject"
                   THEN CatchBlock(promises[r][i].provider, s.error,
                                   promises[r][i].startTime, now)
                   ELSE ProcessReply(promises[r][i].provider, promises[r][i].response,
                                     s.text, promises[r][i].startTime, now)
          IN  /\ promises' = [promises EXCEPT ![r][i] = SettleWith(@, s, c.settled)]
              /\ plog' = [plog EXCEPT ![r][i] = @ \o c.log]
    /\ UNCHANGED <<env, request, pc, overallStartTime, requestData, queryRequest,
                   fetchCalls, sent, hlog, ran, now, arg, result>>

RECURSIVE ValuesOfFulfilled(_, _)
ValuesOfFulfilled(ps, i) ==
    IF i > Len(ps) THEN <<>>
    ELSE (IF ps[i].state = "fulfilled" THEN <<ps[i].value>> ELSE <<>>)
         \o ValuesOfFulfilled(ps, i + 1)

\* a join that settles with the first promise that does (Promise.race-like)
PromiseAll_FirstSettled(ps) ==
    IF \E i \in 1..Len(ps) : ps[i].state = "rejected"
    THEN Rejected(ps[CHOOSE i \in 1..Len(ps) : ps[i].state = "rejected"].reason)
    ELSE IF \E i \in 1..Len(ps) : ps[i].state = "fulfilled"
    THEN Fulfilled(ValuesOfFulfilled(ps, 1))
    ELSE [state |-> "pending"]

\* a join that settles only once every promise is fulfilled with a success
PromiseAll_WaitsForSuccess(ps) ==
    IF \E i \in 1..Len(ps) : ps[i].state = "rejected"
    THEN Rejected(ps[CHOOSE i \in 1..Len(ps) : ps[i].state = "rejected"].reason)
    ELSE IF \A i \in 1..Len(ps) : ps[i].state = "fulfilled" /\ ps[i].value.success
    THEN Fulfilled([i \in 1..Len(ps) |-> ps[i].value])
    ELSE [state |-> "pending"]

\* Promise.all(ps): rejected with the reason of a rejected promise as soon as
\* there is one, fulfilled with the values in array order once every promise
\* is fulfilled, pending otherwise
PromiseAll(ps) ==
    IF \E i \in 1..Len(ps) : ps[i].state = "rejected"
    THEN Rejected(ps[CHOOSE i \in 1..Len(ps) : ps[i].state = "rejected"].reason)
    ELSE IF \A i \in 1..Len(ps) : ps[i].state = "fulfilled"
    THEN Fulfilled([i \in 1..Len(ps) |-> ps[i].value])
    ELSE [state |-> "pending"]

\* lines 512-524: what the handler does with the settled join
AfterJoin(r, all) ==
    IF all.state = "rejected"
    THEN ReturnError(r, <<"join">>, 500, <<"Failed to query LLMs">>,
                     Obj(<< <<"error", Str(MessageOf(all.reason))>> >>))
    ELSE LET ok == createSuccessResponse(
                       createCombinedResponse(Get(queryRequest[r], "query").s, all.value,
                                              now - overallStartTime[r], now), now)
         IN  /\ sent' = [sent EXCEPT ![r] = Append(@, ok.response)]
             /\ hlog' = [hlog EXCEPT ![r] = @ \o ok.log]
             /\ ran' = [ran EXCEPT ![r] = @ \o <<"join", "combine">>]
             /\ pc' = [pc EXCEPT ![r] = "done"]

\* `await Promise.all(promises)` settles and the handler returns its response
JoinAll(r) ==
    /\ pc[r] = "awaiting"
    /\ PromiseAll(promises[r]).state # "pending"
    /\ AfterJoin(r, PromiseAll(promises[r]))
    /\ UNCHANGED <<env, request, overallStartTime, requestData, queryRequest, promises,
                   fetchCalls, plog, now, arg, result>>

\* the steps of the requests in R
NextOf(R) ==
    \/ \E r \in R : Receive(r)
    \/ \E r \in R : Decode(r)
    \/ \E r \in R : \E i \in 1..Len(ProviderOrder) : FetchSettles(r, i)
    \/ \E r \in R : \E i \in 1..Len(ProviderOrder) : TextSettles(r, i)
    \/ \E r \in R : JoinAll(r)

Next == NextOf({1})

Spec == Init /\ [][Next]_vars

\* ------------------------------------------------------------------------
\* Properties of a request (checked under Spec, for request 1)
\* ------------------------------------------------------------------------

\* the payload is a structured value (an object or an array), not a primitive
IsStructured(v) == v.t \in {"object", "array"}

\* the error of a rejected payload v, where emptyIsMissing says which class
\* the empty string "" falls in
ExpectedError(v, emptyIsMissing) ==
    IF ~IsStructured(v) THEN <<"Invalid request body">>
    ELSE IF Get(v, "query").t # "string" \/ (emptyIsMissing /\ Get(v, "query").s = <<>>)
    THEN <<"Missing required field: query">>
    ELSE <<"Query cannot be empty">>

Done == pc[1] = "done"

\* the body was decoded and is a structured payload whose query is a string
\* with a character that is not white space
Accepted ==
    /\ request[1].method = "POST"
    /\ requestData[1].t \in {"object", "array"}
    /\ Get(requestData[1], "query").t = "string"
    /\ \E i \in 1..Len(Get(requestData[1], "query").s) :
          Get(requestData[1], "query").s[i] \notin WhiteSpace

\* the credential the caller gave for p, and the process-level one
CallerKey(p) ==
    IF Get(requestData[1], "apiKeys").t = "object"
    THEN Get(Get(requestData[1], "apiKeys"), p)
    ELSE Undefined

EnvKey(p) == env[EnvName(p)]

HasCredential(p) == Truthy(CallerKey(p)) \/ Truthy(EnvKey(p))

\* the providers with a credential, in registration order
Credentialed == SelectSeq(ProviderOrder, LAMBDA p : HasCredential(p))

\* the outcome list of the response sent
Responses == sent[1][1].body.responses

\* the one response sent is the success response
SentSuccess ==
    /\ Len(sent[1]) = 1
    /\ sent[1][1].status = 200
    /\ "responses" \in DOMAIN sent[1][1].body

\* the one response sent is the client error with this message
SentClientError(message) ==
    /\ Len(sent[1]) = 1
    /\ sent[1][1].status = 400
    /\ "responses" \notin DOMAIN sent[1][1].body
    /\ sent[1][1].body.error = message

\* C1: when a request has been accepted and N >= 1 providers have a
\* credential, the response is the success response and its outcome list
\* names exactly those N providers, in registration order, whatever the order
\* in which the invocations completed and whichever of them failed
C1_OutcomesInRegistrationOrder ==
    (Done /\ Accepted /\ Len(Credentialed) >= 1) =>
        /\ SentSuccess
        /\ Len(Responses) = Len(Credentialed)
        /\ \A i \in 1..Len(Credentialed) :
              Responses[i].provider = LLM_CONFIGS[Credentialed[i]].name

\* C1 witness: four providers answered, the first and the third with a
\* failure, the second and the fourth with a success
C1_Witness ==
    /\ Done /\ Accepted
    /\ Len(Credentialed) = 4
    /\ Len(sent[1]) = 1
    /\ Len(Responses) = 4
    /\ ~Responses[1].success /\ Responses[2].success
    /\ ~Responses[3].success /\ Responses[4].success

\* the reply that provider p's adapter parses to Answer
GoodReplyText(p) ==
    CASE p = "anthropic" -> JSONStringify(ToolUseReply(Answer))
      [] p = "gemini" -> JSONStringify(CandidatesReply(Str(JSONStringify(Answer))))
      [] OTHER -> JSONStringify(ChatReply(Str(JSONStringify(Answer))))

\* by what invocation q was given, it has come to its end
Ended(q) ==
    \/ BuildThrows(q.provider, q.args.apiKey)
    \/ Len(q.got) >= 1 /\ q.got[1].kind = "reject"
    \/ Len(q.got) = 2

\* by what invocation q was given, it met a provider-level failure: a stage
\* before the call threw, the call failed, the status is an error, the body
\* could not be read, or the body is not the reply the adapter expects
MetFailure(q) ==
    \/ BuildThrows(q.provider, q.args.apiKey)
    \/ Len(q.got) >= 1 /\ q.got[1].kind = "reject"
    \/ Len(q.got) >= 1 /\ q.got[1].kind = "response" /\ q.got[1].status # 200
    \/ Len(q.got) = 2 /\ q.got[2].kind = "reject"
    \/ Len(q.got) = 2 /\ q.got[2].kind = "text" /\ q.got[2].text # GoodReplyText(q.provider)

\* C2: once a request has dispatched, it ends with the success response
\* whatever failures its invocations met; the i-th outcome is a failure
\* (success = false, an error text, no data) exactly when the i-th invocation
\* met a failure, and is the success with the provider's data otherwise
C2_FailuresStayInTheirEntry ==
    (Done /\ promises[1] # <<>>) =>
        /\ SentSuccess
        /\ Len(Responses) = Len(promises[1])
        /\ \A i \in 1..Len(promises[1]) :
              /\ Responses[i].provider = LLM_CONFIGS[promises[1][i].provider].name
              /\ Responses[i].success = ~MetFailure(promises[1][i])
              /\ Responses[i].success => Responses[i].data = Answer
              /\ ~Responses[i].success =>
                    /\ "error" \in DOMAIN Responses[i]
                    /\ "data" \notin DOMAIN Responses[i]

\* C2 witness: every one of four providers failed, each in a different way
\* (transport, status 429, a body that is no JSON, a body without the
\* field), and the response is the success response
C2_Witness ==
    /\ Done
    /\ Len(promises[1]) = 4
    /\ promises[1][1].got = <<[kind |-> "reject", error |-> ErrorOf(<<"fetch failed">>)]>>
    /\ promises[1][2].got[1].kind = "response" /\ promises[1][2].got[1].status = 429
    /\ promises[1][2].got[2].kind = "text"
    /\ promises[1][3].got[1].kind = "response" /\ promises[1][3].got[1].status = 200
    /\ promises[1][3].got[2] = [kind |-> "text", text |-> <<"<html>", "Bad Gateway", "</html>">>]
    /\ promises[1][4].got[1].kind = "response" /\ promises[1][4].got[1].status = 200
    /\ promises[1][4].got[2] = [kind |-> "text", text |-> JSONStringify(Obj(<<>>))]
    /\ Len(sent[1]) = 1
    /\ sent[1][1].status = 200
    /\ \A i \in 1..4 : ~sent[1][1].body.responses[i].success

\* v has the shape of a ProviderOutcome: a provider name, a success flag, a
\* latency, and the data on success or the error text on failure
IsProviderOutcome(v) ==
    /\ v.provider \in {LLM_CONFIGS[p].name : p \in Providers}
    /\ v.success \in BOOLEAN
    /\ v.latency \in Nat
    /\ IF v.success
       THEN DOMAIN v = {"provider", "success", "data", "latency"}
       ELSE DOMAIN v = {"provider", "success", "error", "latency"} /\ Len(v.error) > 0

\* C3: no invocation's promise is ever rejected; an invocation that has come
\* to its end, at whichever stage, has returned a ProviderOutcome for its own
\* provider (a failure if a stage failed), and one that has not is waiting
C3_InvocationNeverRejects ==
    \A i \in 1..Len(promises[1]) :
        /\ promises[1][i].state \in {"fetching", "reading", "fulfilled"}
        /\ Ended(promises[1][i]) <=> promises[1][i].state = "fulfilled"
        /\ promises[1][i].state = "fulfilled" =>
              /\ IsProviderOutcome(promises[1][i].value)
              /\ promises[1][i].value.provider = LLM_CONFIGS[promises[1][i].provider].name
              /\ promises[1][i].value.success = ~MetFailure(promises[1][i])

\* C3 witness: one invocation failed before its call (the credential could
\* not be put in a header) and another failed reading the body; both returned
\* a failure outcome
C3_Witness ==
    /\ Len(promises[1]) = 2
    /\ promises[1][1].provider = "openai"
    /\ promises[1][1].args.apiKey = Unprintable
    /\ promises[1][1].got = <<>>
    /\ promises[1][1].state = "fulfilled"
    /\ promises[1][1].value.error = ConversionMessage
    /\ Len(promises[1][2].got) = 2
    /\ promises[1][2].got[2].kind = "reject"
    /\ promises[1][2].state = "fulfilled"
    /\ promises[1][2].value.error = <<"body stream error">>

\* C4: if the response of a dispatched request has been sent, every
\* invocation of that request has come to its end: none is still waiting for
\* its call or for the body
C4_ResponseAfterAllComplete ==
    (sent[1] # <<>> /\ promises[1] # <<>>) =>
        \A i \in 1..Len(promises[1]) :
            /\ promises[1][i].state \notin {"fetching", "reading"}
            /\ Ended(promises[1][i])

\* C4 witness: the response of a request with three invocations was sent,
\* all three having ended
C4_Witness ==
    /\ Len(promises[1]) = 3
    /\ Len(sent[1]) = 1
    /\ \A i \in 1..3 : promises[1][i].state = "fulfilled"

\* the number of fetch calls of the request that went to provider p
CallsTo(p) == Len(SelectSeq(fetchCalls[1], LAMBDA c : c.provider = p))

\* provider p has been dispatched: an invocation of it was started
DispatchedTo(p) == \E i \in 1..Len(promises[1]) : promises[1][i].provider = p

\* C5 as stated: in every state of a request, each dispatched provider has
\* received exactly one network call and the others none
C5_ExactlyOneCallAsStated ==
    \A p \in Providers : CallsTo(p) = IF DispatchedTo(p) THEN 1 ELSE 0

\* C5 amended: in every state of a request, before and after any failure,
\* each dispatched provider has received at most one network call, and
\* exactly one unless a stage before the call threw (then none); the others
\* none; and no provider has two invocations
C5_AtMostOneCall ==
    /\ \A p \in Providers :
          CallsTo(p) = IF \E i \in 1..Len(promises[1]) :
                             /\ promises[1][i].provider = p
                             /\ ~BuildThrows(p, promises[1][i].args.apiKey)
                          THEN 1 ELSE 0
    /\ \A i, j \in 1..Len(promises[1]) :
          promises[1][i].provider = promises[1][j].provider => i = j

\* C5 witness: the request is over, the dispatched OpenAI invocation failed
\* before its call and no call went to OpenAI, and the Anthropic invocation
\* failed after its one call
C5_Witness ==
    /\ Done
    /\ DispatchedTo("openai") /\ CallsTo("openai") = 0
    /\ DispatchedTo("anthropic") /\ CallsTo("anthropic") = 1
    /\ \A i \in 1..Len(promises[1]) : MetFailure(promises[1][i])

NoProvidersMessage ==
    <<"No API keys provided. Include apiKeys in request body or configure environment variables.">>

\* C6: an accepted request with a credential for none of the four providers
\* ends with the one client error that says no keys were provided, not with
\* a success response, and no invocation was started and no call made
C6_NoProvidersIsAnError ==
    (Accepted /\ Len(Credentialed) = 0) =>
        /\ Done
        /\ SentClientError(NoProvidersMessage)
        /\ promises[1] = <<>>
        /\ fetchCalls[1] = <<>>

\* C6 witness: the caller's only credential is the empty string, the
\* environment has none, and the request ended with the no-keys error
C6_Witness ==
    /\ Done /\ Accepted
    /\ CallerKey("openai") = Str(<<>>)
    /\ \A p \in Providers : ~Truthy(EnvKey(p))
    /\ Len(sent[1]) = 1
    /\ sent[1][1].body.error = NoProvidersMessage

InvalidJsonMessage == <<"Invalid JSON in request body">>

\* the message of the request-level failure of the request, by its inputs
RequestFailureMessage ==
    IF requestData[1] = Undefined THEN InvalidJsonMessage
    ELSE IF ~Accepted THEN ExpectedError(requestData[1], TRUE)
    ELSE NoProvidersMessage

\* C7: a POST request whose body is no JSON, whose payload is malformed,
\* whose query is missing, no string or blank, or for which no credential
\* resolves, ends with exactly one response, the client error with the
\* message of that failure; no invocation was started and no call made; and
\* no request is ever sent two responses
C7_RequestFailureNoDispatch ==
    /\ Len(sent[1]) <= 1
    /\ (Done /\ request[1].method = "POST" /\ (~Accepted \/ Len(Credentialed) = 0)) =>
          /\ SentClientError(RequestFailureMessage)
          /\ promises[1] = <<>>
          /\ fetchCalls[1] = <<>>

\* C7 witness: a query of white space only, sent with a caller credential,
\* was rejected as empty and nothing was dispatched
C7_Witness ==
    /\ Done
    /\ Get(requestData[1], "query") = Str(<<" ", "\t">>)
    /\ Truthy(CallerKey("openai"))
    /\ Len(sent[1]) = 1
    /\ sent[1][1].body.error = <<"Query cannot be empty">>
    /\ fetchCalls[1] = <<>>

\* C8: once an accepted request has been decoded, the providers invoked are
\* exactly those with a truthy credential from the caller or the
\* environment; each is invoked with that credential (the caller's if truthy,
\* else the environment's), never with an absent or empty one; and no call
\* goes to a provider without a credential
C8_InvokedIffCredential ==
    /\ Accepted =>
          \A p \in Providers : DispatchedTo(p) <=> HasCredential(p)
    /\ \A i \in 1..Len(promises[1]) :
          /\ Truthy(promises[1][i].args.apiKey)
          /\ promises[1][i].args.apiKey \notin {Undefined, Null, Str(<<>>)}
          /\ promises[1][i].args.apiKey =
                IF Truthy(CallerKey(promises[1][i].provider))
                THEN CallerKey(promises[1][i].provider)
                ELSE EnvKey(promises[1][i].provider)
    /\ \A p \in Providers : CallsTo(p) > 0 => HasCredential(p)

\* C8 witness: the caller gave the empty string for OpenAI and a key for
\* Anthropic, the environment nothing: Anthropic was invoked, OpenAI skipped
C8_Witness ==
    /\ Accepted
    /\ CallerKey("openai") = Str(<<>>)
    /\ ~Truthy(EnvKey("openai"))
    /\ ~DispatchedTo("openai")
    /\ DispatchedTo("anthropic")
    /\ CallsTo("anthropic") = 1
    /\ CallsTo("openai") = 0

\* C16: in every success response providersQueried is the length of the
\* outcome list, which is the number of invocations started and the number
\* of providers with a credential, however many of the outcomes succeeded
C16_ProvidersQueriedIsCount ==
    (sent[1] # <<>> /\ sent[1][1].status = 200) =>
        /\ sent[1][1].body.providersQueried = Len(Responses)
        /\ sent[1][1].body.providersQueried = Len(promises[1])
        /\ sent[1][1].body.providersQueried = Len(Credentialed)
        /\ sent[1][1].body.providersQueried = Cardinality({p \in Providers : DispatchedTo(p)})

\* C16 witness: of two providers one succeeded and one failed;
\* providersQueried is 2 and both outcomes are there with their own flags
C16_Witness ==
    /\ Len(sent[1]) = 1
    /\ sent[1][1].status = 200
    /\ Len(Responses) = 2
    /\ Responses[1].success /\ ~Responses[2].success
    /\ sent[1][1].body.providersQueried = 2

\* ------------------------------------------------------------------------
\* validateRequest on its own
\* ------------------------------------------------------------------------

\* the longest query text of the payloads validateRequest is applied to
MaxQueryLen == 2

QueryChars == {" ", "\t", "a"}

QueryTexts == UNION {[1..n -> QueryChars] : n \in 0..MaxQueryLen}

ValidateQueries ==
    {Undefined, Null, Num(0), Num(123), Bool(FALSE), Bool(TRUE), Obj(<<>>), Arr(<<>>)}
    \cup {Str(s) : s \in QueryTexts}

ValidateInputs ==
    {Undefined, Null, Num(0), Num(42), Bool(FALSE), Bool(TRUE), Str(<<>>), Str(<<"a">>),
     Arr(<<>>), Arr(<<Payload(Str(<<"a">>), Undefined, Undefined)>>)}
    \cup {Payload(q, sc, k) : q \in ValidateQueries,
                              sc \in {Undefined, CallerSchema, Str(<<"not a schema">>)},
                              k \in {Undefined, KeyObj(NoKeys), Num(42)}}

InitValidate ==
    /\ InitAt({})
    /\ env = MakeEnv({}, Undefined)
    /\ request = [r \in RequestIds |-> NoRequest]
    /\ \E v \in ValidateInputs : arg = [fn |-> "validateRequest", input |-> v]
    /\ result = NotApplied

ApplyValidate ==
    /\ arg.fn = "validateRequest"
    /\ ~result.done
    /\ result' = [done |-> TRUE, value |-> validateRequest(arg.input)]
    /\ UNCHANGED <<env, request, pc, overallStartTime, requestData, queryRequest, promises,
                   fetchCalls, sent, hlog, plog, ran, now, arg>>

SpecValidate == InitValidate /\ [][ApplyValidate]_vars

\* ------------------------------------------------------------------------
\* Properties of validateRequest (checked under SpecValidate)
\* ------------------------------------------------------------------------

Validated == arg.fn = "validateRequest" /\ result.done

\* some character of the string is not white space
NonBlankString(v) == v.t = "string" /\ \E i \in 1..Len(v.s) : v.s[i] \notin WhiteSpace

\* every character of the string is white space (none, for the empty string)
BlankString(v) == v.t = "string" /\ \A i \in 1..Len(v.s) : v.s[i] \in WhiteSpace

\* C9: for every structured payload validateRequest succeeds exactly when the
\* query field is a string with a character that is not white space, and on
\* success it returns the payload itself, schema and apiKeys included
C9_ValidatesIffNonBlankString ==
    (Validated /\ IsStructured(arg.input)) =>
        /\ result.value.success <=> NonBlankString(Get(arg.input, "query"))
        /\ result.value.success => result.value.value = arg.input

\* C9 witness: a query with white space around its text was accepted
C9_Witness ==
    /\ Validated
    /\ result.value.success
    /\ Get(arg.input, "query") = Str(<<" ", "a">>)
    /\ Get(arg.input, "apiKeys") = Num(42)

MustReject(v) == ~IsStructured(v) \/ ~NonBlankString(Get(v, "query"))

ResolveCallerValues == {Undefined, Null, Str(<<>>), Str(<<"caller-key">>)}

\* the payloads resolveApiKeys is applied to: validated, with any apiKeys
ResolveInputs ==
    {Payload(Str(<<"What is 2+2?">>), Undefined, k) :
        k \in {Undefined, Null, Str(<<"caller-key">>), Num(0)}
              \cup {KeyObj(f) : f \in [Providers -> ResolveCallerValues]}}

\* the environments: a key, or the empty string, for any set of providers
ResolveEnvs ==
    {MakeEnv(S, k) : S \in SUBSET Providers, k \in {Str(<<"env-key">>), Str(<<>>)}}

InitResolve ==
    /\ InitAt({})
    /\ env = MakeEnv({}, Undefined)
    /\ request = [r \in RequestIds |-> NoRequest]
    /\ \E v \in ResolveInputs, e \in ResolveEnvs :
          arg = [fn |-> "resolveApiKeys", input |-> v, env |-> e]
    /\ result = NotApplied

ApplyResolve ==
    /\ arg.fn = "resolveApiKeys"
    /\ ~result.done
    /\ result' = [done |-> TRUE, value |-> resolveApiKeys(arg.input, arg.env)]
    /\ UNCHANGED <<env, request, pc, overallStartTime, requestData, queryRequest, promises,
                   fetchCalls, sent, hlog, plog, ran, now, arg>>

SpecResolve == InitResolve /\ [][ApplyResolve]_vars

\* ------------------------------------------------------------------------
\* Properties of resolveApiKeys (checked under SpecResolve)
\* ------------------------------------------------------------------------

Resolved == arg.fn = "resolveApiKeys" /\ result.done

\* the values JavaScript takes for false
Falsy == {Undefined, Null, Str(<<>>), Num(0), Bool(FALSE)}

\* what the payload holds for provider p under apiKeys (undefined: nothing)
SuppliedKey(payload, p) ==
    IF Get(payload, "apiKeys").t = "object"
    THEN Get(Get(payload, "apiKeys"), p)
    ELSE Undefined

PairEnvs ==
    {MakeEnv({}, Undefined), MakeEnv({"openai"}, Str(<<"env-key">>)),
     MakeEnv({"anthropic", "gemini", "grok"}, Str(<<"env-key">>))}

\* lines 497-500 for one payload and environment: the resolved credentials
\* and the providers of the invocations built from them
ResolveAndBuild(payload, environment) ==
    [apiKeys |-> resolveApiKeys(payload, environment),
     invoked |-> LET started == buildLLMPromises(Get(payload, "query").s, DEFAULT_SCHEMA,
                                                 resolveApiKeys(payload, environment), 0)
                 IN  {started[i].promise.provider : i \in 1..Len(started)}]

InitPair ==
    /\ InitAt({})
    /\ env = MakeEnv({}, Undefined)
    /\ request = [r \in RequestIds |-> NoRequest]
    /\ \E k1, k2 \in MainApiKeys, e1, e2 \in PairEnvs :
          arg = [fn |-> "resolvePair",
                 a |-> [input |-> Payload(Str(<<"What is 2+2?">>), Undefined, k1), env |-> e1],
                 b |-> [input |-> Payload(Str(<<"What is 2+2?">>), Undefined, k2), env |-> e2]]
    /\ result = NotApplied

ApplyPair ==
    /\ arg.fn = "resolvePair"
    /\ ~result.done
    /\ result' = [done |-> TRUE,
                  a |-> ResolveAndBuild(arg.a.input, arg.a.env),
                  b |-> ResolveAndBuild(arg.b.input, arg.b.env)]
    /\ UNCHANGED <<env, request, pc, overallStartTime, requestData, queryRequest, promises,
                   fetchCalls, sent, hlog, plog, ran, now, arg>>

SpecPair == InitPair /\ [][ApplyPair]_vars

\* the two inputs agree on what the caller and the environment hold for p
AgreeOn(p) ==
    /\ SuppliedKey(arg.a.input, p) = SuppliedKey(arg.b.input, p)
    /\ arg.a.env[EnvName(p)] = arg.b.env[EnvName(p)]

\* C12: whenever two inputs agree on the caller's and the default credential
\* of a provider P, the resolved credential of P is the same for both and P
\* is invoked for both or for neither, whatever they hold for the other three
C12_ResolutionPerProvider ==
    (arg.fn = "resolvePair" /\ result.done) =>
        \A p \in Providers :
            AgreeOn(p) =>
                /\ result.a.apiKeys[p] = result.b.apiKeys[p]
                /\ p \in result.a.invoked <=> p \in result.b.invoked

\* C12 witness: the two inputs agree on OpenAI (nothing from the caller,
\* nothing from the environment) and differ on the other three, for which
\* one has caller keys and the other nothing; OpenAI resolved to nothing in
\* both and was invoked in neither
C12_Witness ==
    /\ arg.fn = "resolvePair" /\ result.done
    /\ AgreeOn("openai")
    /\ SuppliedKey(arg.a.input, "openai") = Undefined
    /\ arg.a.env[EnvName("openai")] = Undefined
    /\ \A p \in Providers \ {"openai"} :
          /\ SuppliedKey(arg.a.input, p) = Str(<<"caller-key">>)
          /\ SuppliedKey(arg.b.input, p) = Undefined
          /\ arg.b.env[EnvName(p)] = Undefined
    /\ result.a.apiKeys["openai"] = Undefined
    /\ result.b.apiKeys["openai"] = Undefined
    /\ result.a.invoked = Providers \ {"openai"}
    /\ result.b.invoked = {}

\* ------------------------------------------------------------------------
\* One invocation on its own, from start to return
\* ------------------------------------------------------------------------

\* the longest time an invocation takes
MaxElapsed == 2

\* responseText.substring(0, 200)
PreviewLimit == 200

\* a body longer than the preview, one character a chunk
LongBody == [i \in 1..(PreviewLimit + 50) |-> "x"]

\* the body texts provider p may reply with: those of ReplyTexts, the empty
\* one, replies whose content parses to null, is a number, is no JSON, a
\* tool_use whose input is a string, and the long body
OutcomeTexts(p) ==
    ReplyTexts(p)
    \cup {<<>>, LongBody, ErrorReplyText,
          JSONStringify(ChatReply(Str(<<"null">>))),
          JSONStringify(ChatReply(Num(123))),
          JSONStringify(ChatReply(Str(<<"not json">>))),
          JSONStringify(CandidatesReply(Str(<<"null">>))),
          JSONStringify(CandidatesReply(Str(<<"not json">>))),
          JSONStringify(ToolUseReply(Str(<<"text">>))),
          JSONStringify(ToolUseReply(Str(JSONStringify(Answer))))}

OutcomeStatuses ==
    {[status |-> 200, statusText |-> <<"OK">>],
     [status |-> 201, statusText |-> <<"Created">>],
     [status |-> 404, statusText |-> <<"Not Found">>],
     [status |-> 429, statusText |-> <<"Too Many Requests">>],
     [status |-> 500, statusText |-> <<"Internal Server Error">>]}

\* the ways an invocation of p runs to its end
Endings(p) ==
    (IF p = "anthropic" THEN {} ELSE {[kind |-> "thrown"]})
    \cup {[kind |-> "reject", error |-> e] :
            e \in {ErrorOf(<<"fetch failed">>), ErrorOf(<<"body stream error">>), NotAnError}}
    \cup {[kind |-> "reply", response |-> r, text |-> t] :
            r \in OutcomeStatuses, t \in OutcomeTexts(p)}

\* the invocation of p started at time start and brought to its end at time
\* time: how its promise settles and what it logs on the way
RunInvocation(p, ending, start, time) ==
    CASE ending.kind = "thrown" ->
           CatchBlock(p, ErrorOf(ConversionMessage), start, time)
      [] ending.kind = "reject" ->
           CatchBlock(p, ending.error, start, time)
      [] ending.kind = "reply" ->
           ProcessReply(p, ending.response, ending.text, start, time)

InitOutcome ==
    /\ InitAt({})
    /\ env = MakeEnv({}, Undefined)
    /\ request = [r \in RequestIds |-> NoRequest]
    /\ \E p \in Providers, t \in 0..MaxElapsed :
          \E e \in Endings(p) :
              arg = [fn |-> "invoke", provider |-> p, ending |-> e, start |-> 0,
                     time |-> IF e.kind = "thrown" THEN 0 ELSE t]
    /\ result = NotApplied

ApplyOutcome ==
    /\ arg.fn = "invoke"
    /\ ~result.done
    /\ result' = [done |-> TRUE]
                 @@ RunInvocation(arg.provider, arg.ending, arg.start, arg.time)
    /\ UNCHANGED <<env, request, pc, overallStartTime, requestData, queryRequest, promises,
                   fetchCalls, sent, hlog, plog, ran, now, arg>>

SpecOutcome == InitOutcome /\ [][ApplyOutcome]_vars

\* ------------------------------------------------------------------------
\* Properties of one invocation (checked under SpecOutcome)
\* ------------------------------------------------------------------------

Invoked == arg.fn = "invoke" /\ result.done

\* C13: every invocation returns an outcome that is one of two variants:
\* success = true with a data field and no error field, or success = false
\* with an error field holding a non-empty string and no data field
C13_TaggedVariant ==
    Invoked =>
        /\ result.settled.state = "fulfilled"
        /\ result.settled.value.success \in BOOLEAN
        /\ result.settled.value.success =>
              /\ "data" \in DOMAIN result.settled.value
              /\ "error" \notin DOMAIN result.settled.value
        /\ ~result.settled.value.success =>
              /\ "error" \in DOMAIN result.settled.value
              /\ "data" \notin DOMAIN result.settled.value
              /\ result.settled.value.error \in Seq(STRING)
              /\ result.settled.value.error # <<>>

\* C13 witness: a reply whose content parses to null is a success whose data
\* field is there and holds null
C13_Witness ==
    /\ Invoked
    /\ arg.ending.kind = "reply"
    /\ arg.ending.text = JSONStringify(ChatReply(Str(<<"null">>)))
    /\ result.settled.value.success
    /\ result.settled.value.data = Null

\* the reply has a non-success status and its body was read
ErrorReply ==
    /\ Invoked
    /\ arg.ending.kind = "reply"
    /\ ~(arg.ending.response.status \in 200..299)

\* the chunks of text s hold the chunks of text part in a row
ContainsText(s, part) ==
    \E k \in 0..(Len(s) - Len(part)) : SubSeq(s, k + 1, k + Len(part)) = part

MaxClock == 3

InitTimed ==
    /\ InitAt({1})
    /\ env = MakeEnv({}, Undefined)
    /\ \E k \in TimedApiKeys :
          request = [r \in RequestIds |->
                        IF r = 1
                        THEN [method |-> "POST", url |-> <<"https://worker.example/">>,
                              body |-> JSONStringify(Payload(Str(<<"What is 2+2?">>),
                                                             Undefined, k))]
                        ELSE NoRequest]
    /\ arg = NoCall
    /\ result = NotApplied

\* Date.now() moves on while the handlers wait; it never goes back
Tick ==
    /\ now < MaxClock
    /\ pc[1] # "done"
    /\ now' = now + 1
    /\ UNCHANGED <<env, request, pc, overallStartTime, requestData, queryRequest, promises,
                   fetchCalls, sent, hlog, plog, ran, arg, result>>

NextTimed ==
    \/ NextOf({1})
    \/ Tick

SpecTimed == InitTimed /\ [][NextTimed]_vars

\* invocation i has returned in this step
Returns(i) ==
    /\ i \in 1..Len(promises'[1])
    /\ promises'[1][i].state = "fulfilled"
    /\ i \in 1..Len(promises[1]) => promises[1][i].state # "fulfilled"

InitTwo ==
    /\ InitAt({1, 2})
    /\ env = MakeEnv({}, Undefined)
    /\ request \in TwoRequests
    /\ arg = NoCall
    /\ result = NotApplied

NextTwo == NextOf({1, 2})

SpecTwo == InitTwo /\ [][NextTwo]_vars

\* what request r itself asked: its query, its schema or the default one,
\* and its credential for provider p
OwnQuery(r) == Get(requestData[r], "query").s

OwnSchema(r) ==
    IF Get(requestData[r], "schema") = Undefined
    THEN DEFAULT_SCHEMA
    ELSE Get(requestData[r], "schema")

OwnKey(r, p) == Get(Get(requestData[r], "apiKeys"), p)

\* the state of request r
StateOf(r) ==
    <<pc[r], overallStartTime[r], requestData[r], queryRequest[r], promises[r],
      fetchCalls[r], sent[r], hlog[r], plog[r], ran[r]>>

\* every invocation, call and response of request r comes from r's own
\* query, schema and credentials and from r's own invocations
OwnOnly(r) ==
    /\ \A i \in 1..Len(promises[r]) :
          /\ promises[r][i].args.query = OwnQuery(r)
          /\ promises[r][i].args.schema = OwnSchema(r)
          /\ promises[r][i].args.apiKey = OwnKey(r, promises[r][i].provider)
          /\ promises[r][i].state = "fulfilled" =>
                promises[r][i].value.success = ~MetFailure(promises[r][i])
    /\ \A i \in 1..Len(fetchCalls[r]) :
          /\ fetchCalls[r][i].body =
                JSONStringify(buildBody(fetchCalls[r][i].provider, OwnQuery(r), OwnSchema(r)))
          /\ fetchCalls[r][i].headers =
                buildHeaders(fetchCalls[r][i].provider, OwnKey(r, fetchCalls[r][i].provider))
    /\ sent[r] # <<>> =>
          /\ Len(sent[r]) = 1
          /\ sent[r][1].status = 200
          /\ sent[r][1].body.query = OwnQuery(r)
          /\ Len(sent[r][1].body.responses) = Len(promises[r])
          /\ \A i \in 1..Len(promises[r]) :
                sent[r][1].body.responses[i] = promises[r][i].value

\* C18: with two requests in flight, each request's invocations, calls and
\* response are built from its own query, schema and credentials and its
\* response holds exactly the outcomes of its own invocations; every step
\* changes the state of one request only; and the environment, the only
\* variable both read beside the provider table, never changes
C18_RequestsDoNotInteract ==
    /\ [](OwnOnly(1) /\ OwnOnly(2))
    /\ [][/\ StateOf(1)' = StateOf(1) \/ StateOf(2)' = StateOf(2)
          /\ env' = env]_vars

\* C18 witness: both requests are answered; the first, answered while the
\* second was in flight, succeeded at OpenAI and the second failed there
C18_Witness ==
    /\ pc[1] = "done" /\ pc[2] = "done"
    /\ Len(sent[1]) = 1 /\ Len(sent[2]) = 1
    /\ sent[1][1].body.query = <<"What is 2+2?">>
    /\ sent[2][1].body.query = <<"Capital of France?">>
    /\ promises[1][1].provider = "openai" /\ promises[2][1].provider = "openai"
    /\ promises[1][1].args.apiKey = Str(<<"caller-key">>)
    /\ promises[2][1].args.apiKey = Str(<<"other-key">>)
    /\ sent[1][1].body.responses[1].success
    /\ ~sent[2][1].body.responses[1].success

\* ------------------------------------------------------------------------
\* A request whose awaits all settle
\* ------------------------------------------------------------------------

\* the event loop runs every handler that can run, and every call issued
\* and every body read settles, by a reply or by a failure
Fairness ==
    /\ WF_vars(Receive(1))
    /\ WF_vars(Decode(1))
    /\ WF_vars(JoinAll(1))
    /\ \A i \in 1..Len(ProviderOrder) :
          WF_vars(FetchSettles(1, i)) /\ WF_vars(TextSettles(1, i))

InitLive ==
    /\ InitAt({1})
    /\ env = MakeEnv({}, Undefined)
    /\ \E q \in LiveRequests : request = [r \in RequestIds |-> IF r = 1 THEN q ELSE NoRequest]
    /\ arg = NoCall
    /\ result = NotApplied

SpecLive == InitLive /\ [][Next]_vars /\ Fairness

\* C19: if every call issued for a request settles, the request comes to
\* have a response, and from then on it has exactly that one response
C19_EventuallyOneResponse ==
    <>[](pc[1] = "done" /\ Len(sent[1]) = 1)

\* C19 witness: a request with three invocations, whose calls settled in
\* three different ways, has its one response
C19_Witness ==
    /\ pc[1] = "done"
    /\ Len(sent[1]) = 1
    /\ Len(promises[1]) = 3
    /\ \A i \in 1..3 : promises[1][i].state = "fulfilled"
    /\ promises[1][1].value.success
    /\ Len(promises[1][2].got) = 2 /\ promises[1][2].got[2].kind = "reject"
    /\ Len(promises[1][3].got) = 1

\* ------------------------------------------------------------------------
\* safeJsonParse on its own (SpecParse)
\* ------------------------------------------------------------------------

\* the longest text drawn chunk by chunk
MaxTextLen == 3

\* the chunks the drawn texts are made of: the structural characters, the
\* quote, white space, a letter, a numeral and a literal
TextChunks == {"{", "}", "[", "]", DQ, ":", ",", " ", "a", "1", "null"}

DrawnTexts == UNION {[1..n -> TextChunks] : n \in 0..MaxTextLen}

\* values whose JSON.stringify text is among the inputs
SampleValues ==
    {Null, Bool(TRUE), Num(42), Str(<<>>), Str(<<"a", DQ, "\n">>), Arr(<<Num(1), Null>>),
     Obj(<< <<"a", Arr(<<>>)>>, <<"b", Obj(<< <<"c", Str(<<"d">>)>> >>)>> >>),
     DEFAULT_SCHEMA}

\* the length of the long texts
LargeLen == 300

LargeText == [i \in 1..LargeLen |-> "x"]

\* long texts: white space only, no JSON at all, a string literal, a string
\* literal that is never closed
LargeTexts ==
    {[i \in 1..LargeLen |-> " "],
     LargeText,
     <<DQ>> \o LargeText \o <<DQ>>,
     <<"[", DQ>> \o LargeText}

ParseTexts ==
    DrawnTexts \cup LargeTexts \cup {JSONStringify(v) : v \in SampleValues}
    \cup {<<"\n", "\t">>, <<" ">> \o JSONStringify(DEFAULT_SCHEMA) \o <<"\n">>,
          <<"undefined">>, <<"not", " ", "json">>, <<DQ, "\n", DQ>>}

InitParse ==
    /\ InitAt({})
    /\ env = MakeEnv({}, Undefined)
    /\ request = [r \in RequestIds |-> NoRequest]
    /\ \E text \in ParseTexts : arg = [fn |-> "safeJsonParse", input |-> Str(text)]
    /\ result = NotApplied

ApplyParse ==
    /\ arg.fn = "safeJsonParse"
    /\ ~result.done
    /\ result' = [done |-> TRUE, value |-> safeJsonParse(arg.input)]
    /\ UNCHANGED <<env, request, pc, overallStartTime, requestData, queryRequest, promises,
                   fetchCalls, sent, hlog, plog, ran, now, arg>>

SpecParse == InitParse /\ [][ApplyParse]_vars

\* ------------------------------------------------------------------------
\* Properties of safeJsonParse (checked under SpecParse)
\* ------------------------------------------------------------------------

Parsed == arg.fn = "safeJsonParse" /\ result.done

\* the messages JSON.parse has for a text
ParserMessages(text) ==
    {UnexpectedEnd, BadControl} \cup {UnexpectedToken(text[i]) : i \in 1..Len(text)}

\* v is a JSON value: no undefined anywhere in it
RECURSIVE IsJsonValue(_)
IsJsonValue(v) ==
    CASE v.t \in {"null", "boolean", "number", "string"} -> TRUE
      [] v.t = "array" -> \A i \in 1..Len(v.a) : IsJsonValue(v.a[i])
      [] v.t = "object" -> \A i \in 1..Len(v.f) : IsJsonValue(v.f[i][2])
      [] OTHER -> FALSE

\* out is the success variant, carrying a JSON value that its own text gives back
TaggedSuccess(out) ==
    /\ DOMAIN out = {"success", "value"}
    /\ out.success = TRUE
    /\ IsJsonValue(out.value)
    /\ JSONParse(JSONStringify(out.value)) = [ok |-> TRUE, value |-> out.value]

\* out is the failure variant, its error the prefix and then one of the
\* parser's messages for the text
TaggedFailure(out, text) ==
    /\ DOMAIN out = {"success", "error"}
    /\ out.success = FALSE
    /\ \E m \in ParserMessages(text) : out.error = <<"JSON parse error: ">> \o m

\* C20: for every text, safeJsonParse returns a tagged value, success with
\* the parsed value or failure with an error text that ends with the
\* parser's message; empty and white-space texts fail, and the text
\* JSON.stringify writes for a value succeeds with that value
C20_AlwaysTagged ==
    Parsed =>
        /\ TaggedSuccess(result.value) \/ TaggedFailure(result.value, arg.input.s)
        /\ BlankString(arg.input) =>
              TaggedFailure(result.value, arg.input.s)
              /\ result.value.error = <<"JSON parse error: ">> \o UnexpectedEnd
        /\ \A v \in SampleValues :
              arg.input.s = JSONStringify(v) => result.value = [success |-> TRUE, value |-> v]

\* C20 witness: a long text that is no JSON was parsed, and the answer is a
\* failure
C20_Witness ==
    /\ Parsed
    /\ arg.input.s = LargeText
    /\ result.value.success = FALSE

\* ------------------------------------------------------------------------
\* Requests with every kind of schema field (SpecSchema)
\* ------------------------------------------------------------------------

\* what a caller may put in the schema field: nothing, a schema, and values
\* that are no schema object
SchemaValues ==
    {Undefined, CallerSchema, Null, Bool(FALSE), Bool(TRUE), Num(0), Num(42), Str(<<>>),
     Str(<<"not a schema">>), Arr(<<>>), Obj(<<>>)}

SchemaRequests ==
    {PostOf(Payload(Str(<<"What is 2+2?">>), sc, k)) :
        sc \in SchemaValues,
        k \in {KeyObj([NoKeys EXCEPT !["openai"] = Str(<<"caller-key">>),
                                     !["anthropic"] = Str(<<"caller-key">>)]),
               KeyObj([NoKeys EXCEPT !["gemini"] = Str(<<"caller-key">>),
                                     !["grok"] = Str(<<"caller-key">>)])}}

InitSchema ==
    /\ InitAt({1})
    /\ env = MakeEnv({}, Undefined)
    /\ \E q \in SchemaRequests : request = [r \in RequestIds |-> IF r = 1 THEN q ELSE NoRequest]
    /\ arg = NoCall
    /\ result = NotApplied

SpecSchema == InitSchema /\ [][Next]_vars

\* the schema a provider finds in the body of call c, at the place its API
\* reads it from
SchemaSent(c) ==
    CASE c.provider = "anthropic" ->
           Get(At(Get(JSONParse(c.body).value, "tools"), 0), "input_schema")
      [] c.provider = "gemini" ->
           Get(Get(JSONParse(c.body).value, "generationConfig"), "responseSchema")
      [] OTHER ->
           Get(Get(Get(JSONParse(c.body).value, "response_format"), "json_schema"), "schema")

\* the schema field of the decoded payload (undefined: not provided)
CallerSchemaField == Get(requestData[1], "schema")

\* C21: when the payload has no schema field every call's body carries the
\* default schema, and when it has one every call's body carries the
\* caller's value
C21_SchemaOptional ==
    \A i \in 1..Len(fetchCalls[1]) :
        SchemaSent(fetchCalls[1][i]) =
            IF CallerSchemaField = Undefined THEN DEFAULT_SCHEMA ELSE CallerSchemaField

\* the schema the code passes on: the caller's value unless it is falsy
C21_SchemaUnlessFalsy ==
    \A i \in 1..Len(fetchCalls[1]) :
        SchemaSent(fetchCalls[1][i]) =
            IF Truthy(CallerSchemaField) THEN CallerSchemaField ELSE DEFAULT_SCHEMA

\* ------------------------------------------------------------------------
\* Properties of a request: the checks before dispatch (checked under Spec)
\* ------------------------------------------------------------------------

MethodNotAllowedMessage == <<"Method not allowed. Use POST.">>

\* C22: a request whose method is not POST never has its body decoded, its
\* payload validated or a provider dispatched, and once its handler has run
\* it is over with one response, status 405 and the method error, whatever
\* its body
C22_NonPostIs405 ==
    request[1].method # "POST" =>
        /\ requestData[1] = Undefined
        /\ queryRequest[1] = Undefined
        /\ promises[1] = <<>>
        /\ fetchCalls[1] = <<>>
        /\ \A k \in 1..Len(ran[1]) : ran[1][k] \notin {"json", "validate", "resolve", "build"}
        /\ pc[1] \in {"start", "done"}
        /\ pc[1] = "done" =>
              /\ Len(sent[1]) = 1
              /\ sent[1][1].status = 405
              /\ sent[1][1].body.error = MethodNotAllowedMessage
              /\ "responses" \notin DOMAIN sent[1][1].body

\* C22 witness: an OPTIONS request whose body would be accepted and
\* dispatched to four providers was answered with 405
C22_Witness ==
    /\ request[1].method = "OPTIONS"
    /\ request[1].body = JSONStringify(Payload(Str(<<" ", "What is 2+2?", " ">>), Undefined,
                                               KeyObj([p \in Providers |-> Str(<<"caller-key">>)])))
    /\ Done
    /\ Len(sent[1]) = 1
    /\ sent[1][1].status = 405

\* ------------------------------------------------------------------------
\* Properties of one invocation: classification and the log (SpecOutcome)
\* ------------------------------------------------------------------------

\* the outcome the invocation returned
Outcome == result.settled.value

\* the text begins with the given chunks
StartsWith(s, prefix) == Len(s) >= Len(prefix) /\ SubSeq(s, 1, Len(prefix)) = prefix

\* the messages the adapter of p has for a reply without the expected field
AdapterMessage(p) ==
    CASE p = "openai" -> <<"No content in OpenAI response">>
      [] p = "anthropic" -> <<"No tool_use in Claude response">>
      [] p = "gemini" -> <<"No content in Gemini response">>
      [] p = "grok" -> <<"No content in Grok response">>

\* the class of the invocation's ending, the first that applies: 1 an
\* exception, 2 a non-success status, 3 a body that is no JSON, 4 a failure
\* of the adapter, 0 none
FailureClass ==
    IF arg.ending.kind \in {"thrown", "reject"} THEN 1
    ELSE IF ~(arg.ending.response.status \in 200..299) THEN 2
    ELSE IF ~JSONParse(arg.ending.text).ok THEN 3
    ELSE IF ~parseResponse(arg.provider, JSONParse(arg.ending.text).value).success THEN 4
    ELSE 0

\* C23: the outcome's error is decided by the first class that applies: the
\* thrown error's message ('Unknown error' for a thrown value that is no
\* Error); the composed provider/status message, whatever the body; the JSON
\* parse failure's message; the adapter's message; and only with no class is
\* the outcome a success with the adapter's data
C23_ClassificationPriority ==
    Invoked =>
        /\ result.settled.state = "fulfilled"
        /\ Outcome.success = (FailureClass = 0)
        /\ FailureClass = 1 =>
              Outcome.error =
                  CASE arg.ending.kind = "thrown" -> ConversionMessage
                    [] arg.ending.error.isError -> arg.ending.error.message
                    [] OTHER -> <<"Unknown error">>
        /\ FailureClass = 2 =>
              Outcome.error =
                  LLM_CONFIGS[arg.provider].name
                  \o <<" API error: ", ToString(arg.ending.response.status), " ">>
                  \o arg.ending.response.statusText
        /\ FailureClass = 3 =>
              Outcome.error = <<"JSON parse error: ">> \o JSONParse(arg.ending.text).msg
        /\ FailureClass = 4 =>
              /\ Outcome.error = parseResponse(arg.provider, JSONParse(arg.ending.text).value).error
              /\ \/ Outcome.error = AdapterMessage(arg.provider)
                 \/ StartsWith(Outcome.error, <<"JSON parse error: ">>)
                 \/ StartsWith(Outcome.error, <<"Claude parse error: ">>)
        /\ FailureClass = 0 =>
              Outcome.data = parseResponse(arg.provider, JSONParse(arg.ending.text).value).value
        /\ (arg.ending.kind = "reply" /\ arg.ending.text = JSONStringify(Obj(<<>>))) =>
              Outcome.error = IF arg.ending.response.status \in 200..299
                              THEN AdapterMessage(arg.provider)
                              ELSE LLM_CONFIGS[arg.provider].name
                                   \o <<" API error: ", ToString(arg.ending.response.status), " ">>
                                   \o arg.ending.response.statusText

\* C23 witness: a reply with status 500 whose body is no JSON gave the
\* composed status message, not a parse failure
C23_Witness ==
    /\ Invoked
    /\ arg.ending.kind = "reply"
    /\ arg.ending.response.status = 500
    /\ arg.ending.text = <<"<html>", "Bad Gateway", "</html>">>
    /\ ~Outcome.success
    /\ Outcome.error = LLM_CONFIGS[arg.provider].name
                       \o <<" API error: ", "500", " ", "Internal Server Error">>

\* ------------------------------------------------------------------------
\* The handler after the join settled (SpecJoin)
\* ------------------------------------------------------------------------

\* outcomes an invocation may have returned
JoinOutcomes ==
    {SuccessOutcome(<<"OpenAI">>, Answer, 1),
     FailureOutcome(<<"OpenAI">>, <<"fetch failed">>, 0),
     SuccessOutcome(<<"Claude">>, Answer, 0),
     FailureOutcome(<<"Claude">>, <<"Claude", " API error: ", "429", " ", "Too Many Requests">>, 1)}

\* the reasons a join may be rejected with
JoinReasons ==
    {ErrorOf(m) : m \in {<<"fetch failed">>, <<"boom">>, <<"out of memory">>,
                         <<"Maximum call stack size exceeded">>,
                         <<"connect ECONNREFUSED 10.0.0.7:443">>, ConversionMessage}}
    \cup {NotAnError}

\* how `await Promise.all(promises)` may settle
JoinSettlements ==
    {Rejected(e) : e \in JoinReasons}
    \cup {Fulfilled(<<o>>) : o \in JoinOutcomes}
    \cup {Fulfilled(<<o1, o2>>) : o1 \in JoinOutcomes, o2 \in JoinOutcomes}

\* a handler at `await Promise.all(promises)`, the join about to settle as
\* arg.all
InitJoin ==
    /\ env = MakeEnv({}, Undefined)
    /\ request = [r \in RequestIds |->
                    IF r = 1 THEN PostOf(Payload(Str(<<"What is 2+2?">>), Undefined, Undefined))
                    ELSE NoRequest]
    /\ pc = [r \in RequestIds |-> IF r = 1 THEN "awaiting" ELSE "idle"]
    /\ overallStartTime = [r \in RequestIds |-> 0]
    /\ requestData = [r \in RequestIds |->
                        IF r = 1 THEN Payload(Str(<<"What is 2+2?">>), Undefined, Undefined)
                        ELSE Undefined]
    /\ queryRequest = requestData
    /\ promises = [r \in RequestIds |-> <<>>]
    /\ fetchCalls = [r \in RequestIds |-> <<>>]
    /\ sent = [r \in RequestIds |-> <<>>]
    /\ hlog = [r \in RequestIds |-> <<>>]
    /\ plog = [r \in RequestIds |-> <<>>]
    /\ ran = [r \in RequestIds |-> <<"method", "json", "validate", "resolve", "build">>]
    /\ now \in 0..MaxElapsed
    /\ \E a \in JoinSettlements : arg = [fn |-> "join", all |-> a]
    /\ result = NotApplied

ApplyJoin ==
    /\ arg.fn = "join"
    /\ pc[1] = "awaiting"
    /\ AfterJoin(1, arg.all)
    /\ UNCHANGED <<env, request, overallStartTime, requestData, queryRequest, promises,
                   fetchCalls, plog, now, arg, result>>

SpecJoin == InitJoin /\ [][ApplyJoin]_vars

RECURSIVE Mentions(_, _)
\* the JSON value v holds the text m in one of its strings
Mentions(v, m) ==
    CASE v.t = "string" -> ContainsText(v.s, m)
      [] v.t = "array" -> \E i \in 1..Len(v.a) : Mentions(v.a[i], m)
      [] v.t = "object" -> \E i \in 1..Len(v.f) : Mentions(v.f[i][2], m)
      [] OTHER -> FALSE

C24_JoinFailureCarriesMessage ==
    (arg.fn = "join" /\ pc[1] = "done") =>
        /\ Len(sent[1]) = 1
        /\ (sent[1][1].status # 200) = (arg.all.state = "rejected")
        /\ arg.all.state = "rejected" =>
              /\ sent[1][1].status = 500
              /\ sent[1][1].body.error = <<"Failed to query LLMs">>
              /\ sent[1][1].body.details =
                    Obj(<< <<"error", Str(MessageOf(arg.all.reason))>> >>)

\* ------------------------------------------------------------------------
\* The response parsers on their own (SpecAdapter)
\* ------------------------------------------------------------------------

\* values that are not what a level of the path should hold
WrongShapes == {Null, Num(0), Num(42), Bool(TRUE), Str(<<>>), Str(<<"abc">>), Arr(<<>>), Obj(<<>>)}

\* what the innermost field may hold: a JSON text, texts that are no JSON,
\* and values that are no string
ContentValues ==
    WrongShapes
    \cup {Undefined, Str(JSONStringify(Answer)), Str(<<"not json">>), Str(<<"null">>),
          Bool(FALSE), Arr(<<Num(1)>>), Arr(<<Str(JSONStringify(Answer))>>), Answer}

\* an object with the one property k, or without it when v is undefined
Field(k, v) == IF v = Undefined THEN Obj(<<>>) ELSE Obj(<< <<k, v>> >>)

\* chat-completions replies, right or broken at each level of
\* choices[0].message.content
ChatData ==
    WrongShapes
    \cup {Field("choices", w) : w \in WrongShapes}
    \cup {Field("choices", Arr(<<w>>)) : w \in WrongShapes}
    \cup {Field("choices", Arr(<<Field("message", w)>>)) : w \in WrongShapes}
    \cup {ChatReply(c) : c \in ContentValues}
    \cup {Field("choices", Field("0", Field("message", Field("content", Str(JSONStringify(Answer))))))}

\* generateContent replies, right or broken at each level of
\* candidates[0].content.parts[0].text
CandidatesData ==
    WrongShapes
    \cup {Field("candidates", w) : w \in WrongShapes}
    \cup {Field("candidates", Arr(<<w>>)) : w \in WrongShapes}
    \cup {Field("candidates", Arr(<<Field("content", w)>>)) : w \in WrongShapes}
    \cup {Field("candidates", Arr(<<Field("content", Field("parts", w))>>)) : w \in WrongShapes}
    \cup {Field("candidates", Arr(<<Field("content", Field("parts", Arr(<<w>>)))>>)) :
            w \in WrongShapes}
    \cup {CandidatesReply(c) : c \in ContentValues}

\* messages replies, right or broken at each level of content[].input
ToolUseData ==
    WrongShapes
    \cup {Field("content", w) : w \in WrongShapes}
    \cup {Field("content", Arr(<<w>>)) : w \in WrongShapes}
    \cup {Field("content", Arr(<<Obj(<< <<"type", Str(<<"text">>)>> >>), w>>)) : w \in WrongShapes}
    \cup {Field("content", Arr(<<Obj(<< <<"type", w>>, <<"input", Answer>> >>)>>)) :
            w \in WrongShapes}
    \cup {ToolUseReply(c) : c \in ContentValues}

AdapterData(p) ==
    CASE p = "anthropic" -> ToolUseData
      [] p = "gemini" -> CandidatesData
      [] OTHER -> ChatData

InitAdapter ==
    /\ InitAt({})
    /\ env = MakeEnv({}, Undefined)
    /\ request = [r \in RequestIds |-> NoRequest]
    /\ \E p \in Providers : \E d \in AdapterData(p) :
          arg = [fn |-> "parseResponse", provider |-> p, input |-> d]
    /\ result = NotApplied

ApplyAdapter ==
    /\ arg.fn = "parseResponse"
    /\ ~result.done
    /\ result' = [done |-> TRUE, value |-> parseResponse(arg.provider, arg.input)]
    /\ UNCHANGED <<env, request, pc, overallStartTime, requestData, queryRequest, promises,
                   fetchCalls, sent, hlog, plog, ran, now, arg>>

SpecAdapter == InitAdapter /\ [][ApplyAdapter]_vars

\* ------------------------------------------------------------------------
\* Properties of the response parsers (checked under SpecAdapter)
\* ------------------------------------------------------------------------

Adapted == arg.fn = "parseResponse" /\ result.done

\* v is a non-empty array whose first element is an object
FirstIsObject(v) == v.t = "array" /\ Len(v.a) >= 1 /\ v.a[1].t = "object"

\* the reply d has the field provider p's parser reads, every level of the
\* path to it of the shape the provider's API gives it: a string for the
\* text-embedding providers, an object for Claude's tool_use input
ExpectedShape(p, d) ==
    CASE p = "anthropic" ->
           /\ d.t = "object"
           /\ Get(d, "content").t = "array"
           /\ \A i \in 1..Len(Get(d, "content").a) : Get(d, "content").a[i].t = "object"
           /\ \E i \in 1..Len(Get(d, "content").a) :
                 /\ Get(Get(d, "content").a[i], "type") = Str(<<"tool_use">>)
                 /\ Get(Get(d, "content").a[i], "input").t = "object"
      [] p = "gemini" ->
           /\ d.t = "object"
           /\ FirstIsObject(Get(d, "candidates"))
           /\ Get(Get(d, "candidates").a[1], "content").t = "object"
           /\ FirstIsObject(Get(Get(Get(d, "candidates").a[1], "content"), "parts"))
           /\ Get(Get(Get(Get(d, "candidates").a[1], "content"), "parts").a[1], "text").t = "string"
      [] OTHER ->
           /\ d.t = "object"
           /\ FirstIsObject(Get(d, "choices"))
           /\ Get(Get(d, "choices").a[1], "message").t = "object"
           /\ Get(Get(Get(d, "choices").a[1], "message"), "content").t = "string"

\* the result is one of the two variants of a parse result
IsParseResult(v) ==
    \/ DOMAIN v = {"success", "value"} /\ v.success = TRUE
    \/ DOMAIN v = {"success", "error"} /\ v.success = FALSE /\ Len(v.error) > 0

\* C25: each parser returns a parse result for every decoded reply, and a
\* success only for a reply whose expected field is there with the expected
\* shape at every level
C25_DefensiveParsers ==
    Adapted =>
        /\ IsParseResult(result.value)
        /\ result.value.success => ExpectedShape(arg.provider, arg.input)

\* what the parsers do: they never raise, and they fail whenever the field
\* they read is missing or falsy; a truthy field of any type goes on (to
\* safeJsonParse, or for Claude into the result as it is)
C25_ParsersNeverRaise ==
    Adapted =>
        /\ IsParseResult(result.value)
        /\ ~ExpectedShape(arg.provider, arg.input) /\ result.value.success =>
              \E c \in ContentValues \cup {Str(JSONStringify(Answer))} :
                  /\ Truthy(c)
                  /\ arg.input \in {ChatReply(c), CandidatesReply(c), ToolUseReply(c),
                                    Field("choices", Field("0", Field("message", Field("content", c))))}

\* the texts a provider may embed its answer as
EmbeddedTexts == {JSONStringify(Answer), <<"null">>, <<"not json">>}

\* the tool_use inputs Claude may return
ToolInputs == {Answer, Str(<<"text">>), Str(JSONStringify(Answer))}

\* the reply of a text-embedding provider p that embeds the text t
Embedding(p, t) ==
    JSONStringify(IF p = "gemini" THEN CandidatesReply(Str(t)) ELSE ChatReply(Str(t)))

\* the invocation was given a reply with a success status
GoodStatusReply ==
    /\ Invoked
    /\ arg.ending.kind = "reply"
    /\ arg.ending.response.status \in 200..299

\* C26: for OpenAI, Gemini and Grok the outcome of a reply that embeds a
\* text is the parse of that text: a success whose data is the parsed value
\* (the object {answer: Paris} for the text {"answer":"Paris"}), or a failure
\* with the parse error when the text is no JSON; for Claude the outcome's
\* data is the tool_use input as it is, a string staying a string
C26_EmbeddedTextIsParsed ==
    GoodStatusReply =>
        /\ \A t \in EmbeddedTexts :
              (arg.provider # "anthropic" /\ arg.ending.text = Embedding(arg.provider, t)) =>
                  IF JSONParse(t).ok
                  THEN Outcome.success /\ Outcome.data = JSONParse(t).value
                  ELSE ~Outcome.success
                       /\ Outcome.error = <<"JSON parse error: ">> \o JSONParse(t).msg
        /\ (arg.provider # "anthropic"
            /\ arg.ending.text = Embedding(arg.provider, <<"{", DQ, "answer", DQ, ":", DQ, "Paris", DQ, "}">>)) =>
              Outcome.success /\ Outcome.data = Obj(<< <<"answer", Str(<<"Paris">>)>> >>)
        /\ \A x \in ToolInputs :
              (arg.provider = "anthropic" /\ arg.ending.text = JSONStringify(ToolUseReply(x))) =>
                  Outcome.success /\ Outcome.data = x

\* C26 witness: an OpenAI reply whose content is the text {"answer":"Paris"}
\* gave the object as data
C26_Witness ==
    /\ GoodStatusReply
    /\ arg.provider = "openai"
    /\ arg.ending.text = JSONStringify(ChatReply(Str(<<"{", DQ, "answer", DQ, ":", DQ, "Paris", DQ, "}">>)))
    /\ Outcome.success
    /\ Outcome.data = Obj(<< <<"answer", Str(<<"Paris">>)>> >>)

\* ------------------------------------------------------------------------
\* Properties of the invocations' log (checked under SpecTimed)
\* ------------------------------------------------------------------------

\* the level of the terminal record of invocation q, by what q was given
TerminalLevel(q) ==
    IF BuildThrows(q.provider, q.args.apiKey) THEN "ERROR"
    ELSE IF q.got[Len(q.got)].kind = "reject" THEN "ERROR"
    ELSE IF ~(q.got[1].status \in 200..299) THEN "WARN"
    ELSE IF q.got[2].text = GoodReplyText(q.provider) THEN "INFO"
    ELSE "ERROR"

\* the records of invocation i: the start record, and once the invocation
\* has returned one terminal record of the level of its ending, the success
\* record with the elapsed time
LogOf(i) ==
    /\ Len(plog[1][i]) = IF promises[1][i].state = "fulfilled" THEN 2 ELSE 1
    /\ plog[1][i][1].level = "INFO"
    /\ plog[1][i][1].message = <<"Querying ">> \o LLM_CONFIGS[promises[1][i].provider].name
    /\ promises[1][i].state = "fulfilled" =>
          /\ plog[1][i][2].level = TerminalLevel(promises[1][i])
          /\ plog[1][i][2].level = "INFO" =>
                /\ promises[1][i].value.success
                /\ plog[1][i][2].message =
                      LLM_CONFIGS[promises[1][i].provider].name \o <<" query successful">>
                /\ Get(plog[1][i][2].context, "latency") = Num(promises[1][i].value.latency)
                /\ plog[1][i][2].timestamp - promises[1][i].startTime
                      = promises[1][i].value.latency
          /\ plog[1][i][2].level # "INFO" => ~promises[1][i].value.success

\* C27: every dispatched invocation has logged its start record and, from
\* the step in which it returns, exactly one terminal record: INFO with the
\* elapsed time for a success, WARN for a non-success status, ERROR for an
\* exception, an unparseable body or an adapter failure; the records are only
\* ever appended, an outcome once returned never changes, and the response
\* lists the outcomes as they were returned
C27_StartThenOneTerminalRecord ==
    /\ [](/\ Len(plog[1]) = Len(promises[1])
          /\ \A i \in 1..Len(promises[1]) : LogOf(i)
          /\ (sent[1] # <<>> /\ promises[1] # <<>>) =>
                \A i \in 1..Len(promises[1]) :
                    sent[1][1].body.responses[i] = promises[1][i].value)
    /\ [][\A i \in 1..Len(promises[1]) :
             /\ SubSeq(plog'[1][i], 1, Len(plog[1][i])) = plog[1][i]
             /\ promises[1][i].state = "fulfilled" => promises'[1][i] = promises[1][i]
             /\ (promises[1][i].state # "fulfilled" /\ promises'[1][i].state = "fulfilled") =>
                   Len(plog'[1][i]) = Len(plog[1][i]) + 1]_vars

\* C27 witness: of two invocations the first returned a success after some
\* time, logged at INFO with that time, and the second returned after a
\* status 429, logged at WARN
C27_Witness ==
    /\ Len(promises[1]) = 2
    /\ promises[1][1].state = "fulfilled" /\ promises[1][2].state = "fulfilled"
    /\ Len(plog[1][1]) = 2 /\ Len(plog[1][2]) = 2
    /\ plog[1][1][2].level = "INFO"
    /\ Get(plog[1][1][2].context, "latency") = Num(2)
    /\ plog[1][2][2].level = "WARN"
    /\ Len(sent[1]) = 1

\* ------------------------------------------------------------------------
\* Properties of a request: dispatch and the final response (checked under Spec)
\* ------------------------------------------------------------------------

\* the place of provider p in the registration order
OrderOf(p) == CHOOSE k \in 1..Len(ProviderOrder) : ProviderOrder[k] = p

\* the invocations that call fetch, in the order of the promises array
CallingProviders ==
    SelectSeq([i \in 1..Len(promises[1]) |-> promises[1][i]],
              LAMBDA q : ~BuildThrows(q.provider, q.args.apiKey))

\* C28: the calls of a request are issued in registration order, all of them
\* in the one step that builds the promises, while no invocation has been
\* given any completion and before the handler waits on the join; no call is
\* issued later; and every later step of an invocation changes that one
\* invocation's promise and log and no other's
C28_AllCallsIssuedUpFront ==
    /\ [](/\ \A j, k \in 1..Len(fetchCalls[1]) :
                j < k => OrderOf(fetchCalls[1][j].provider) < OrderOf(fetchCalls[1][k].provider)
          /\ Len(fetchCalls[1]) = Len(CallingProviders)
          /\ \A j \in 1..Len(fetchCalls[1]) :
                fetchCalls[1][j].provider = CallingProviders[j].provider)
    /\ [][/\ fetchCalls'[1] # fetchCalls[1] =>
                /\ pc[1] = "decoding" /\ pc'[1] = "awaiting"
                /\ fetchCalls[1] = <<>> /\ promises[1] = <<>>
                /\ \A i \in 1..Len(promises'[1]) : promises'[1][i].got = <<>>
          /\ promises[1] # <<>> =>
                /\ Len(promises'[1]) = Len(promises[1])
                /\ \A i, j \in 1..Len(promises[1]) :
                      (/\ promises'[1][i] # promises[1][i] \/ plog'[1][i] # plog[1][i]
                       /\ promises'[1][j] # promises[1][j] \/ plog'[1][j] # plog[1][j]) => i = j
                /\ \A i \in 1..Len(promises[1]) :
                      /\ promises'[1][i].args = promises[1][i].args
                      /\ promises'[1][i].startTime = promises[1][i].startTime]_vars

\* C28 witness: four calls were issued, the fourth provider's invocation has
\* returned and the first is still waiting for its call
C28_Witness ==
    /\ Len(fetchCalls[1]) = 4
    /\ Len(promises[1]) = 4
    /\ promises[1][4].state = "fulfilled"
    /\ promises[1][1].state = "fetching"
    /\ pc[1] = "awaiting"

\* the steps of handleRequest in the order of the code
HandlerSteps == <<"method", "json", "validate", "resolve", "build", "join", "combine">>

\* what request.json() makes of the request's body
DecodedBody == RequestJson(request[1].body)

\* the payload passes validation: structured, its query a non-blank string
ValidPayload(v) == IsStructured(v) /\ NonBlankString(Get(v, "query"))

\* no credential for any provider, from the payload v or the environment
NoCredentialIn(v) ==
    \A p \in Providers :
        /\ ~Truthy(env[EnvName(p)])
        /\ \/ Get(v, "apiKeys").t # "object"
           \/ ~Truthy(Get(Get(v, "apiKeys"), p))

\* the first check the request fails, by its inputs alone
FirstFailingCheck ==
    IF request[1].method # "POST" THEN "method"
    ELSE IF ~DecodedBody.ok THEN "json"
    ELSE IF ~ValidPayload(DecodedBody.value) THEN "validate"
    ELSE IF NoCredentialIn(DecodedBody.value) THEN "build"
    ELSE "none"

\* the steps that ran when the request ended at that check, and its response
StepsUpTo(check) ==
    CASE check = "method" -> <<"method">>
      [] check = "json" -> <<"method", "json">>
      [] check = "validate" -> <<"method", "json", "validate">>
      [] check = "build" -> <<"method", "json", "validate", "resolve", "build">>
      [] check = "none" -> HandlerSteps

StatusOf(check) == IF check = "method" THEN 405 ELSE IF check = "none" THEN 200 ELSE 400

MessageOfCheck(check) ==
    CASE check = "method" -> MethodNotAllowedMessage
      [] check = "json" -> InvalidJsonMessage
      [] check = "validate" -> ExpectedError(DecodedBody.value, TRUE)
      [] check = "build" -> NoProvidersMessage

\* C29: the steps of a request always run in the order method, JSON
\* decoding, validation, key resolution and build; a request is over with
\* exactly one response, and when a check fails the steps that ran are those
\* up to the first failing check and the response is that check's error:
\* nothing later ran and nothing was dispatched
C29_FirstFailingCheckDecides ==
    /\ Len(ran[1]) <= Len(HandlerSteps)
    /\ ran[1] = SubSeq(HandlerSteps, 1, Len(ran[1]))
    /\ Len(sent[1]) = IF Done THEN 1 ELSE 0
    /\ Done =>
          /\ ran[1] = StepsUpTo(FirstFailingCheck)
          /\ sent[1][1].status = StatusOf(FirstFailingCheck)
          /\ FirstFailingCheck # "none" =>
                /\ sent[1][1].body.error = MessageOfCheck(FirstFailingCheck)
                /\ promises[1] = <<>>
                /\ fetchCalls[1] = <<>>
          /\ FirstFailingCheck \in {"method", "json"} => requestData[1] = Undefined
          /\ FirstFailingCheck \in {"method", "json", "validate"} => queryRequest[1] = Undefined

\* C29 witness: a payload with a blank query and no credential anywhere
\* ended with the validation error, not the no-providers error
C29_Witness ==
    /\ Done
    /\ request[1].method = "POST"
    /\ DecodedBody.ok
    /\ Get(DecodedBody.value, "query") = Str(<<" ", "\t">>)
    /\ NoCredentialIn(DecodedBody.value)
    /\ Len(sent[1]) = 1
    /\ sent[1][1].status = 400
    /\ sent[1][1].body.error = <<"Query cannot be empty">>
    /\ ran[1] = <<"method", "json", "validate">>

\* the query string and the schema of the caller's payload
CallerQuery == Get(DecodedBody.value, "query").s

SchemaInEffect == OrElse(Get(DecodedBody.value, "schema"), DEFAULT_SCHEMA)

\* C30: every invocation of a request holds, from its start to the end,
\* the caller's query string as the caller wrote it, untrimmed, and the one
\* schema in effect for the request; the query field of the combined
\* response is that same string
C30_QueryNeverModified ==
    /\ \A i \in 1..Len(promises[1]) :
          /\ promises[1][i].args.query = CallerQuery
          /\ promises[1][i].args.schema = SchemaInEffect
    /\ \A i, j \in 1..Len(promises[1]) :
          promises[1][i].args.schema = promises[1][j].args.schema
    /\ queryRequest[1] # Undefined => Get(queryRequest[1], "query").s = CallerQuery
    /\ (Done /\ sent[1][1].status = 200) => sent[1][1].body.query = CallerQuery

\* C30 witness: a query with blanks around it went to two or more providers
\* and came back, blanks included, in the combined response
C30_Witness ==
    /\ Done
    /\ Len(sent[1]) = 1
    /\ sent[1][1].status = 200
    /\ Len(promises[1]) >= 2
    /\ promises[1][1].args.query = <<" ", "What is 2+2?", " ">>
    /\ promises[1][2].args.query = <<" ", "What is 2+2?", " ">>
    /\ sent[1][1].body.query = <<" ", "What is 2+2?", " ">>
    /\ Trim(sent[1][1].body.query) # sent[1][1].body.query

====
